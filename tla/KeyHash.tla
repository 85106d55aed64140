------------------------------- MODULE KeyHash -------------------------------
(***************************************************************************)
(* How MurmurHash3_x64_128 and hash_ap go through the bytes of a key: the  *)
(* loops, the switch that falls through its cases, and the pieces of 8, 4, *)
(* 2 and 1 bytes.  A step is one round of a loop, one case or one piece.   *)
(*                                                                         *)
(* The arithmetic is left out.  What counts is where each byte goes: used  *)
(* says how often a byte has gone into the hash, pending holds the bytes   *)
(* in k1 and k2 that have not been mixed into h1 and h2 yet, and touched   *)
(* is what was read from memory, which is more than the key where hash_ap  *)
(* reads a short through a pointer to int.                                 *)
(***************************************************************************)
EXTENDS Integers

CONSTANT MaxLen     \* bound: bytes of a key

ASSUME KeyHashAssumption == MaxLen \in Nat

Routine == {
    "murmur",      \* MurmurHash3_x64_128 of Tool/bloom.c and bloom.cpp
    "hash_ap_c",   \* hash_ap of Tool/bloom.c and bloom.cpp
    "hash_ap_hpp"  \* hash_ap of bloom_filter.hpp
    }

VARIABLES
    routine,     \* the function that runs
    len,         \* len, or remaining_length at the call
    at,          \* where it is
    itr,         \* itr - begin; in Murmur 16 * i, and then the start of the tail
    rest,        \* remaining_length; in Murmur's tail the case
    loop,        \* loop
    used,        \* how often each byte has gone into the hash
    pending,     \* bytes in k1 and in k2
    touched      \* bytes that were read

hashVars == <<routine, len, at, itr, rest, loop, used, pending, touched>>

Bytes(from, n) == from .. from + n - 1

\* The bytes go into the hash once more.
Use(bytes) == used' = [b \in DOMAIN used |-> used[b] + (IF b \in bytes THEN 1 ELSE 0)]

Read(bytes) == touched' = touched \union bytes

HashInit ==
    /\ routine \in Routine
    /\ len \in 0 .. MaxLen
    /\ at = IF routine = "murmur" THEN "body" ELSE "eight"
    /\ itr = 0
    /\ rest = len
    /\ loop = 0
    /\ used = [b \in Bytes(0, len) |-> 0]
    /\ pending = [k1 |-> {}, k2 |-> {}]
    /\ touched = {}

-----------------------------------------------------------------------------
(* MurmurHash3_x64_128 *)

nblocks == len \div 16

\* A block of 16 bytes: k1 goes into h1 and k2 into h2.
Block ==
    /\ at = "body"
    /\ itr < nblocks * 16
    /\ Use(Bytes(itr, 16))
    /\ Read(Bytes(itr, 16))
    /\ itr' = itr + 16
    /\ UNCHANGED <<routine, len, at, rest, loop, pending>>

\* switch (len & 15)
Switch ==
    /\ at = "body"
    /\ itr = nblocks * 16
    /\ at' = "tail"
    /\ rest' = len % 16
    /\ UNCHANGED <<routine, len, itr, loop, used, pending, touched>>

\* Mutant: the eighth byte is put into the register that was mixed before it.
RegisterSeven(c) == IF c >= 8 THEN "k2" ELSE "k1"

Register(c) == IF c >= 9 THEN "k2" ELSE "k1"

\* A case puts a byte into its register; cases 9 and 1 mix it into h2 and h1.
Case ==
    LET byte == itr + rest - 1
        k == Register(rest)
    IN  /\ at = "tail"
        /\ rest > 0
        /\ Read({byte})
        /\ IF rest \in {9, 1}
           THEN /\ Use(pending[k] \union {byte})
                /\ pending' = [pending EXCEPT ![k] = {}]
           ELSE /\ pending' = [pending EXCEPT ![k] = @ \union {byte}]
                /\ UNCHANGED used
        /\ rest' = rest - 1
        /\ UNCHANGED <<routine, len, at, itr, loop>>

\* The finalization needs nothing of the key any more.
Finalize ==
    /\ at = "tail"
    /\ rest = 0
    /\ at' = "end"
    /\ UNCHANGED <<routine, len, itr, rest, loop, used, pending, touched>>

-----------------------------------------------------------------------------
(* hash_ap *)

\* Pieces of eight bytes; loop is not counted up.
Eight ==
    /\ at = "eight"
    /\ rest >= 8
    /\ Use(Bytes(itr, 8))
    /\ Read(Bytes(itr, 8))
    /\ itr' = itr + 8
    /\ rest' = rest - 8
    /\ UNCHANGED <<routine, len, at, loop, pending>>

Four ==
    /\ at = "eight"
    /\ rest < 8
    /\ at' = "two"
    /\ IF rest >= 4
       THEN /\ Use(Bytes(itr, 4))
            /\ Read(Bytes(itr, 4))
            /\ itr' = itr + 4
            /\ rest' = rest - 4
            /\ loop' = loop + 1
       ELSE UNCHANGED <<used, touched, itr, rest, loop>>
    /\ UNCHANGED <<routine, len, pending>>

\* In C the short is cut from an int that was read.
ShortSize == IF routine = "hash_ap_c" THEN 4 ELSE 2

Two ==
    /\ at = "two"
    /\ at' = "one"
    /\ IF rest >= 2
       THEN /\ Use(Bytes(itr, 2))
            /\ Read(Bytes(itr, ShortSize))
            /\ itr' = itr + 2
            /\ rest' = rest - 2
            /\ loop' = loop + 1
       ELSE UNCHANGED <<used, touched, itr, rest, loop>>
    /\ UNCHANGED <<routine, len, pending>>

One ==
    /\ at = "one"
    /\ at' = "end"
    /\ IF rest > 0
       THEN Use({itr}) /\ Read({itr})
       ELSE UNCHANGED <<used, touched>>
    /\ UNCHANGED <<routine, len, itr, rest, loop, pending>>

HashNext == Block \/ Switch \/ Case \/ Finalize \/ Eight \/ Four \/ Two \/ One

HashSpec == HashInit /\ [][HashNext]_hashVars

-----------------------------------------------------------------------------
(* Properties *)

\* When a hash is finished every byte of the key has gone into it exactly once,
\* whatever the length: none is left in k1 or k2, in the gap between the pieces
\* or behind them; and what was read is the key, with at most two bytes behind it.
EveryByteOnce ==
    at = "end" =>
        /\ \A b \in Bytes(0, len) : used[b] = 1
        /\ Bytes(0, len) \subseteq touched
        /\ touched \subseteq Bytes(0, IF routine = "hash_ap_c" THEN len + 2 ELSE len)
=============================================================================
