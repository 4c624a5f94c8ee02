-------------------------------- MODULE Link --------------------------------
(***************************************************************************)
(* What the link between the two CPUs of the machine promises, without the *)
(* 8255 chips, the handshake lines and the way the emulator shares its one *)
(* thread between the CPUs: each side has one outgoing place; a byte put   *)
(* there is taken by the other side, once and unchanged, before the next   *)
(* one is put.  A reset of the machine empties both places.                *)
(***************************************************************************)

CONSTANTS Sides,    \* the two CPUs
          Bytes,    \* what they send
          None      \* an empty place

VARIABLES held,     \* the byte each side has put and the other not yet taken
          got       \* the last byte each side has taken

linkVars == <<held, got>>

LinkInit ==
  /\ held = [s \in Sides |-> None]
  /\ got = [s \in Sides |-> None]

Offer(s) ==
  /\ held[s] = None
  /\ \E b \in Bytes : held' = [held EXCEPT ![s] = b]
  /\ UNCHANGED got

Take(s, from) ==
  /\ s # from
  /\ held[from] # None
  /\ got' = [got EXCEPT ![s] = held[from]]
  /\ held' = [held EXCEPT ![from] = None]

Restart ==
  /\ held' = [s \in Sides |-> None]
  /\ got' = [s \in Sides |-> None]

LinkNext ==
  \/ \E s \in Sides : Offer(s)
  \/ \E s, from \in Sides : Take(s, from)
  \/ Restart

LinkSpec == LinkInit /\ [][LinkNext]_linkVars
=============================================================================
