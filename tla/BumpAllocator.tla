--------------------------- MODULE BumpAllocator ---------------------------
(***************************************************************************)
(* What block_malloc amounts to in a kernel that never frees: one pointer  *)
(* that moves up through the block area, past a header and the request     *)
(* rounded up to the alignment, and stops short of the limit.              *)
(***************************************************************************)
EXTENDS Integers

CONSTANTS Header,  \* bytes in front of every block
          Align,   \* blocks are multiples of this size
          Limit    \* bytes in the block area

VARIABLES brk,     \* the first byte not handed out
          last     \* the latest request and the offset returned for it

RoundUp(n) == n + ((Align - (n % Align)) % Align)
Need(n) == Header + RoundUp(n)

Init == brk = 0

Bump(n) ==
    /\ brk + Need(n) <= Limit
    /\ brk' = brk + Need(n)
    /\ last' = [size |-> n, ret |-> brk + Header]

Refuse(n, null) ==
    /\ brk + Need(n) > Limit
    /\ last' = [size |-> n, ret |-> null]
    /\ UNCHANGED brk
=============================================================================
