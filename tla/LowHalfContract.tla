-------------------------- MODULE LowHalfContract --------------------------
(***************************************************************************)
(* What the low-half extractions promise.  Of the S elements below the key *)
(* the k least are brought to one end of the range, the end of it by       *)
(* move_low_half and its start by offset_low_half, and k is returned.  The *)
(* exact forms return half of S, or S if that half is too small.           *)
(***************************************************************************)
EXTENDS KeyArrays

CONSTANT MinHalf            \* 16: a smaller half is not worth selecting

VARIABLES
    v,                  \* the array of keys
    first, last,        \* the range
    key,
    side,               \* "end" or "start"
    exact,              \* k has to be exactly half
    returned, ret

vars == <<v, first, last, key, side, exact, returned, ret>>

Belows(a) == Cardinality({p \in first .. last - 1 : a[p] < key})

\* "k == floor(S/2) exactly (or S if S/2 < 16)"
ExactHalf(s) == IF s \div 2 < MinHalf THEN s ELSE s \div 2

\* The cells that k elements occupy at the side.
Block(k) == IF side = "end" THEN last - k .. last - 1 ELSE first .. first + k - 1

Taken(a, k) ==
    /\ k \in 0 .. Belows(a)
    /\ \A p \in Block(k) :
          /\ a[p] < key
          /\ \A q \in (first .. last - 1) \ Block(k) : a[p] <= a[q]
    /\ exact => k = ExactHalf(Belows(a))

Init ==
    /\ v \in [Pos -> Keys]
    /\ first \in 0 .. N
    /\ last \in first .. N
    /\ key \in Int
    /\ side \in {"end", "start"}
    /\ exact \in BOOLEAN
    /\ returned = FALSE
    /\ ret = 0

Next ==
    /\ ~returned
    /\ v' \in [Pos -> Keys]
    /\ Rearranged(v', v, first, last)
    /\ returned' \in BOOLEAN
    /\ returned' => Taken(v', ret')
    /\ ~returned' => ret' = ret
    /\ UNCHANGED <<first, last, key, side, exact>>

Spec == Init /\ [][Next]_vars
=============================================================================
