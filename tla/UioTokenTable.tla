---------------------------- MODULE UioTokenTable ----------------------------
(***************************************************************************)
(* What the token helpers of the UIO plugin (src/plugins/uio/token.c)      *)
(* promise their callers, with the heap's layout left out: a table from    *)
(* (device, region) to the token get_token handed out.  A token, once     *)
(* made, is the one every later get_token of its region returns until     *)
(* free_token_list releases the device; a new token or a clone is a block *)
(* nothing else is using.  UioToken refines this module.                  *)
(***************************************************************************)
CONSTANTS Devices, Regions, Addrs, Null

VARIABLES
  table,   \* table[d][r]: the token of region r of device d, or Null
  inuse    \* the blocks the helpers have handed out and not freed

Init ==
  /\ table = [d \in Devices |-> [r \in Regions |-> Null]]
  /\ inuse = {}

Tokens(d) == {table[d][r] : r \in Regions} \ {Null}

\* get_token(d, r) on a region with no token: a fresh block becomes its
\* token (a call on a region with a token, or a failed malloc, changes
\* nothing, so it is a stuttering step).
Get(d, r) ==
  /\ table[d][r] = Null
  /\ \E a \in Addrs \ inuse :
       /\ table' = [table EXCEPT ![d][r] = a]
       /\ inuse' = inuse \cup {a}

\* clone_token: fresh blocks only; the table is untouched.
Clone ==
  /\ \E new \in SUBSET (Addrs \ inuse) : inuse' = inuse \cup new
  /\ UNCHANGED table

\* free_token_list on a device: exactly its tokens are released.
Free(d) ==
  /\ inuse' = inuse \ Tokens(d)
  /\ table' = [table EXCEPT ![d] = [r \in Regions |-> Null]]

Next ==
  \/ \E d \in Devices, r \in Regions : Get(d, r)
  \/ Clone
  \/ \E d \in Devices : Free(d)

Spec == Init /\ [][Next]_<<table, inuse>>
=============================================================================
