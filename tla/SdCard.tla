------------------------------- MODULE SdCard -------------------------------
(***************************************************************************)
(* The SD card controller, nemu/src/device/sdcard.c.  The guest stores an  *)
(* argument, then a command, then moves data one word at a time through    *)
(* SDDATA; the card answers at once.  The card's contents are the image    *)
(* file, addressed by the file's position.  Positions count words.         *)
(*                                                                         *)
(* The response registers are not modelled, nor blkcnt, which the device   *)
(* stores and never reads.                                                 *)
(***************************************************************************)
EXTENDS Integers

CONSTANTS
  Sectors,          \* sectors of the image
  BlockWords        \* words of a sector, and of the extended CSD: 512 / 4

ASSUME SdCardAssumption ==
  /\ Sectors \in Nat \ {0}
  /\ BlockWords \in Nat \ {0}

VARIABLES
  sdarg,            \* base[SDARG]
  sddata,           \* base[SDDATA]
  fpos,             \* the image file's position
  addr,             \* the word of the extended CSD to send next
  write_cmd,
  read_ext_csd,
  card              \* the image file

cardVars == <<sdarg, sddata, fpos, addr, write_cmd, read_ext_csd, card>>

CardWords == Sectors * BlockWords

\* A word is named by where it comes from: a place of the original image, of the
\* extended CSD, or of a write's buffer.
Img(p) == <<"img", p>>
Csd(a) == <<"csd", a>>
Buf(o) == <<"buf", o>>

SdInit ==
  /\ sdarg = 0
  /\ sddata = Img(0)
  /\ fpos = 0
  /\ addr = 0
  /\ write_cmd = FALSE
  /\ read_ext_csd = FALSE
  /\ card = [p \in 0 .. CardWords - 1 |-> Img(p)]

\* A store to SDARG.
set_arg(a) ==
  /\ sdarg' = a
  /\ UNCHANGED <<sddata, fpos, addr, write_cmd, read_ext_csd, card>>

\* fseek(fp, blk_addr << 9, SEEK_SET)
seek(arg) == arg * BlockWords

\* Mutant of direction: the direction of the first transfer is kept.
direction_kept(is_write) == write_cmd

direction(is_write) == is_write

prepare_rw(is_write) ==
  /\ fpos' = seek(sdarg)
  /\ addr' = 0
  /\ write_cmd' = direction(is_write)
  /\ UNCHANGED <<sdarg, sddata, read_ext_csd, card>>

\* Commands the device answers without a change to the data path.
Silent == {"GO_IDLE_STATE", "SET_BLOCK_COUNT", "SEND_STATUS", "STOP_TRANSMISSION"}

\* A store to SDCMD.  Any other command is a panic of the emulator.
sdcard_handle_cmd(op) ==
  \/ op \in Silent /\ UNCHANGED cardVars
  \/ /\ op = "SEND_EXT_CSD"
     /\ read_ext_csd' = TRUE
     /\ addr' = 0
     /\ UNCHANGED <<sdarg, sddata, fpos, write_cmd, card>>
  \/ op = "READ_MULTIPLE_BLOCK" /\ prepare_rw(FALSE)
  \/ op = "WRITE_MULTIPLE_BLOCK" /\ prepare_rw(TRUE)

\* Mutant of last_csd_word: one word too far.
next_csd_word(a) == a = BlockWords

last_csd_word(a) == a = BlockWords - 1

\* An access to SDDATA: a load, or a store of w.  What it does depends on the
\* last command, not on whether it is a load or a store; only the stored word is
\* in the register before the handler runs.
sdcard_data_io(w) ==
  /\ addr' = addr + 1
  /\ UNCHANGED <<sdarg, write_cmd>>
  /\ IF read_ext_csd THEN
       /\ sddata' = Csd(addr)
       /\ read_ext_csd' = ~last_csd_word(addr)
       /\ UNCHANGED <<fpos, card>>
     ELSE
       /\ sddata' = IF write_cmd THEN w ELSE card[fpos]
       /\ card' = IF write_cmd THEN [card EXCEPT ![fpos] = w] ELSE card
       /\ fpos' = fpos + 1
       /\ UNCHANGED read_ext_csd
=============================================================================
