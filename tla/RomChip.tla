------------------------------ MODULE RomChip ------------------------------
(***************************************************************************)
(* The flash chip behind the serial port, as SerialInterface drives it:    *)
(* one exchange per erase or burn of a sector.  The port object is shared  *)
(* by the GUI thread and the synchronization thread.                       *)
(***************************************************************************)
EXTENDS RomFat

VARIABLES
    chip,   \* what the flash holds
    port    \* TRUE while SerialInterface::port points to an open port

InSector(x, s) == SectorOf[PageOf[x]] = s

Erased(rom, s) == [x \in Cell |-> IF InSector(x, s) THEN ERASED ELSE rom[x]]

\* Programming clears bits and sets none.
Burnt(rom, s, image) ==
    [x \in Cell |-> IF InSector(x, s) THEN BitAnd(rom[x], image[x]) ELSE rom[x]]

\* Power or the process is lost while the first n cells have been written.
PartlyBurnt(rom, s, image, n) ==
    [x \in Cell |-> IF InSector(x, s) /\ CellIndex(x) < n
                    THEN BitAnd(rom[x], image[x]) ELSE rom[x]]

erase_sector(s)       == chip' = Erased(chip, s)
burn_sector(s, image) == chip' = Burnt(chip, s, image)
open_port             == port' = TRUE     \* no-op when already open
close_port            == port' = FALSE
=============================================================================
