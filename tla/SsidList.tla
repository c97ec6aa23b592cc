------------------------------ MODULE SsidList ------------------------------
(***************************************************************************)
(* What wifi_ssid_manager promises: a set of networks, at most Max, one of *)
(* each name, in which saving a network is one step, also when power fails *)
(* in the middle of it.                                                    *)
(***************************************************************************)
EXTENDS Naturals, FiniteSets

CONSTANTS
  Net,   \* records with a field ssid
  Max    \* max_ssid_num

VARIABLE kept

Named(s) == {m \in kept : m.ssid = s}

Init == kept = {}

\* A network that is known by name gets its new password.
Update(n) ==
  /\ Named(n.ssid) # {}
  /\ kept' = (kept \ Named(n.ssid)) \cup {n}

Append(n) ==
  /\ Named(n.ssid) = {}
  /\ Cardinality(kept) < Max
  /\ kept' = kept \cup {n}

\* A full list gives up one network, whichever.
Evict(n) ==
  /\ Named(n.ssid) = {}
  /\ Cardinality(kept) = Max
  /\ \E v \in kept : kept' = (kept \ {v}) \cup {n}

Next == \E n \in Net : Update(n) \/ Append(n) \/ Evict(n)

Spec == Init /\ [][Next]_kept
=============================================================================
