--------------------------- MODULE ExchangeStore ---------------------------
(***************************************************************************)
(* What the forwarder promises IronPot (Story 18.16,                       *)
(* forwarder/conpot_forwarder.py:1208-1235, 1328-1337): at most one row    *)
(* per exchange, never replaced, under a key no other row has; a repeated  *)
(* exchange is a row of its own, a repeated post of one exchange is none.  *)
(* Rows may come in any order, for a post may be stored late, but the      *)
(* stamps that one life of the forwarder gave tell the order in which the  *)
(* exchanges were observed, and a later life observes later exchanges.     *)
(* Nothing is promised of the stamps of two lives.                         *)
(***************************************************************************)
EXTENDS Integers

CONSTANTS Records, Pdu, Stamps, Boots

VARIABLE rows

Init == rows = {}

Observed(a, b) ==   \* a before b
    /\ a.rec < b.rec /\ a.boot <= b.boot
    /\ a.boot = b.boot => a.stamp < b.stamp

Store(new) ==
    /\ \A row \in rows :
          /\ Observed(row, new) \/ Observed(new, row)
          /\ <<row.stamp, Pdu[row.rec]>> # <<new.stamp, Pdu[new.rec]>>
    /\ rows' = rows \cup {new}

\* Of all rows only the one that is stored is looked at.
Next ==
    \E new \in rows' :
        /\ new \in [rec : Records, stamp : Stamps, boot : Boots]
        /\ Store(new)

Spec == Init /\ [][Next]_rows

=============================================================================
