-------------------------------- MODULE FileBuf --------------------------------
(***************************************************************************)
(* The file buffer of a host (struct file_buf, src/host.c): a name and a   *)
(* circular array with one slot more than it may hold bytes.  head is the  *)
(* slot of the first byte, tail the slot of the last one.                  *)
(*                                                                         *)
(* The loops over bytes are written as what they do to the whole array;    *)
(* AddByte is one iteration of the loop of file_buf_add, and FileProofs    *)
(* shows that the two agree.                                               *)
(***************************************************************************)
EXTENDS Integers, Sequences

CONSTANTS
  MAX_FILE_BUFFER,
  Byte,           \* what a slot can hold,
  Junk            \* and what it holds before anything was put there

ASSUME SizeAssumption == MAX_FILE_BUFFER \in Nat \ {0} /\ Junk \in Byte

Slots == MAX_FILE_BUFFER + 1
Slot == 0 .. MAX_FILE_BUFFER

FileBuffer ==
  [name : Seq(Byte), head : Slot, tail : Slot, occ : 0 .. MAX_FILE_BUFFER,
   buffer : [Slot -> Byte]]

Least(a, b) == IF a <= b THEN a ELSE b

\* A buffer on the stack of host_main, before file_buf_init.
Uninitialized ==
  [name |-> <<>>, head |-> 0, tail |-> 0, occ |-> 0, buffer |-> [i \in Slot |-> Junk]]

file_buf_init(f) ==
  [f EXCEPT !.head = 0, !.tail = MAX_FILE_BUFFER, !.occ = 0, !.name = <<>>]

file_buf_put_name(f, name) == [f EXCEPT !.name = name]

\* How many steps after slot a slot b comes.
StepsAfter(a, b) == IF b > a THEN b - a ELSE b - a + Slots

\* As many bytes as fit are put behind tail.
file_buf_add(f, string) ==
  LET n == Least(Len(string), MAX_FILE_BUFFER - f.occ)
  IN [f EXCEPT
        !.tail = (f.tail + n) % Slots,
        !.occ = f.occ + n,
        !.buffer = [i \in Slot |-> LET k == StepsAfter(f.tail, i)
                                   IN IF k <= n THEN string[k] ELSE f.buffer[i]]]

\* Mutated: head does not go round.
RemoveUnwrapped(f, length) ==
  LET n == Least(length, f.occ)
  IN [f EXCEPT !.head = f.head + n, !.occ = f.occ - n]

\* The buffer after up to length bytes were removed, and these bytes.
file_buf_remove(f, length) ==
  LET n == Least(length, f.occ)
  IN [f EXCEPT !.head = (f.head + n) % Slots, !.occ = f.occ - n]
Removed(f, length) ==
  [i \in 1 .. Least(length, f.occ) |-> f.buffer[(f.head + i - 1) % Slots]]

--------------------------------------------------------------------------------
(* What the buffer stands for.                                                  *)

\* The bytes in the buffer, oldest first.
Contents(f) == [i \in 1 .. f.occ |-> f.buffer[(f.head + i - 1) % Slots]]

\* tail is occ - 1 slots behind head, counted round the array.
Sound(f) == f \in FileBuffer /\ f.tail = (f.head + f.occ + MAX_FILE_BUFFER) % Slots

\* One iteration of the loop of file_buf_add.
AddByte(f, byte) ==
  IF f.occ < MAX_FILE_BUFFER
    THEN LET t == (f.tail + 1) % Slots
         IN [f EXCEPT !.tail = t, !.occ = @ + 1, !.buffer[t] = byte]
    ELSE f
================================================================================
