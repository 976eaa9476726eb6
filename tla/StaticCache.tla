---------------------------- MODULE StaticCache ----------------------------
(***************************************************************************)
(* One row of cache/static.py: a fixed number of slots, written at the     *)
(* current length and never cleared, so that slots past the length keep    *)
(* what was written to them.  The keys and values of a slot are named by   *)
(* the token and the position they were computed from; layers are alike.   *)
(***************************************************************************)
EXTENDS Integers, Sequences

\* torch.zeros: a slot nothing was written to.
Blank == << >>

EmptySlots(n) == [c \in 1 .. n |-> Blank]

\* A bug to catch: positions start one too early.
PlacedFromEarly(p, tokens) == [i \in 1 .. Len(tokens) |-> <<tokens[i], p + i - 2>>]

\* Tokens at consecutive positions from p on; the position table starts at 0.
PlacedFrom(p, tokens) == [i \in 1 .. Len(tokens) |-> <<tokens[i], p + i - 1>>]

Placed(tokens) == PlacedFrom(0, tokens)

\* write()'s assertion: the cache has room for n more entries.
HasRoom(slots, start, n) == start + n <= Len(slots)

Write(slots, start, entries) ==
    [c \in 1 .. Len(slots) |->
       IF c \in start + 1 .. start + Len(entries) THEN entries[c - start] ELSE slots[c]]

\* What a query attends to that sees the first n columns.
Attended(slots, n) == SubSeq(slots, 1, n)
=============================================================================
