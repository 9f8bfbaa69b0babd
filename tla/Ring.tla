-------------------------------- MODULE Ring --------------------------------
(* The fixed-capacity ring buffer under every windowed indicator           *)
(* (src/engine/internal/indicators/ring.go): buf, the position of the next *)
(* write, the number of values and their running sum.                      *)
EXTENDS Integers, Sequences

newRing(capacity) ==
    LET n == IF capacity < 1 THEN 1 ELSE capacity
    IN  [cap |-> n, buf |-> [i \in 0 .. n - 1 |-> 0], size |-> 0, pos |-> 0, sum |-> 0]

full(r) == r.size >= r.cap

advance(r) == (r.pos + 1) % r.cap

push_KeepsSum(r, v) ==
    [r EXCEPT !.buf[r.pos] = v, !.pos = advance(r), !.sum = @ + v,
              !.size = IF full(r) THEN @ ELSE @ + 1]

(* A full ring overwrites its oldest value and takes it out of the sum.    *)
push(r, v) ==
    IF full(r)
    THEN [r EXCEPT !.buf = [@ EXCEPT ![r.pos] = v], !.pos = advance(r), !.sum = @ + (v - r.buf[r.pos])]
    ELSE [r EXCEPT !.buf = [@ EXCEPT ![r.pos] = v], !.pos = advance(r), !.sum = @ + v, !.size = @ + 1]

mean(r) == IF r.size = 0 THEN 0 ELSE r.sum \div r.size

(* Oldest first.                                                           *)
values(r) ==
    LET start == IF full(r) THEN r.pos ELSE 0
    IN  [i \in 1 .. r.size |-> r.buf[(start + i - 1) % r.cap]]

contents(r) == {r.buf[i] : i \in 0 .. r.size - 1}

ringMax(r) == IF r.size = 0 THEN 0 ELSE CHOOSE m \in contents(r) : \A v \in contents(r) : v <= m
ringMin(r) == IF r.size = 0 THEN 0 ELSE CHOOSE m \in contents(r) : \A v \in contents(r) : v >= m

oldest(r) == IF full(r) THEN r.buf[r.pos] ELSE 0
=============================================================================
