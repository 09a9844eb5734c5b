------------------------------ MODULE UioToken ------------------------------
(***************************************************************************)
(* The token helpers of the UIO plugin (src/plugins/uio/token.c): the      *)
(* per-PCI-device list of uio_token records that get_token/find_token keep *)
(* (insertion at the head), clone_token's copy of a token together with    *)
(* its parent chain, and free_token_list.                                   *)
(*                                                                         *)
(* Memory is a bounded heap: Addrs are the blocks malloc can return, and   *)
(* mem[a] is the uio_token stored there.  free() clears only "live"; the   *)
(* bytes of a freed block (its magic included) stay as they were.  The     *)
(* fields kept are those the helpers read or write: magic, device, region, *)
(* parent and next.                                                         *)
(***************************************************************************)
EXTENDS Integers, FiniteSets

CONSTANTS
  Devices,     \* pci_device_t records (model values)
  Regions,     \* region indices passed to get_token
  MaxCells,    \* blocks malloc can hand out (the heap bound)
  MaxDepth     \* longest parent chain a caller builds

Null  == 0
Addrs == 1..MaxCells

Cell == [live : BOOLEAN, magic : BOOLEAN, device : Devices \cup {Null},
         region : Regions \cup {Null}, parent : Addrs \cup {Null},
         next : Addrs \cup {Null}]

\* A block malloc has never handed out: zero bytes.
Blank == [live |-> FALSE, magic |-> FALSE, device |-> Null, region |-> Null,
          parent |-> Null, next |-> Null]

VARIABLES
  mem,       \* Addrs -> Cell
  tokens,    \* tokens[d]: head of p->tokens of device d
  released,  \* devices whose token list has been freed
  held,      \* tokens a client holds from clone_token
  last       \* the last call and its result

vars == <<mem, tokens, released, held, last>>

-----------------------------------------------------------------------------
(* Heap helpers.                                                           *)

FreeCells(m) == {a \in Addrs : ~m[a].live}

\* malloc: the lowest free block (addresses are interchangeable).
Malloc(m) == CHOOSE a \in FreeCells(m) : \A b \in FreeCells(m) : a <= b

\* The cells reached from a by following field f, a included.  The bound
\* keeps the walk finite on a corrupted heap.
RECURSIVE ChainN(_, _, _, _)
ChainN(m, a, f, k) ==
  IF a = Null \/ k = 0 THEN {} ELSE {a} \cup ChainN(m, m[a][f], f, k - 1)
Chain(m, a, f) == ChainN(m, a, f, MaxCells + 1)

-----------------------------------------------------------------------------
(* token_check: a token is accepted when its magic is UIO_TOKEN_MAGIC.      *)
token_check(m, a) == a # Null /\ m[a].magic

\* Mutant: find_token without its region comparison.
FindFromNoRegionCheck(m, t, region) == t

\* find_token: walk p->tokens for the first token of the region.
RECURSIVE FindFrom(_, _, _)
FindFrom(m, t, region) ==
  IF t = Null THEN Null
  ELSE IF m[t].region = region THEN t ELSE FindFrom(m, m[t].next, region)
find_token(m, d, region) == FindFrom(m, tokens[d], region)

\* clone_token as it would be without the recursive copy of the parent.
CloneShallowParent(m, src, lvl, fail) ==
  IF ~token_check(m, src) \/ lvl = fail \/ FreeCells(m) = {}
  THEN [mem |-> m, addr |-> Null]
  ELSE LET a == Malloc(m)
       IN [mem |-> [m EXCEPT ![a] = [m[src] EXCEPT !.live = TRUE]], addr |-> a]

\* clone_token, level lvl of the recursion: the malloc of level fail (or of
\* any level when the heap is exhausted) returns NULL.  The memcpy copies
\* every field, next and parent included, and parent is then overwritten by
\* the clone of the parent, which is NULL when that clone failed.
RECURSIVE clone_token(_, _, _, _)
clone_token(m, src, lvl, fail) ==
  IF ~token_check(m, src) \/ lvl = fail \/ FreeCells(m) = {}
  THEN [mem |-> m, addr |-> Null]
  ELSE LET a  == Malloc(m)
           m1 == [m EXCEPT ![a] = [m[src] EXCEPT !.live = TRUE]]
       IN IF m[src].parent = Null THEN [mem |-> m1, addr |-> a]
          ELSE LET r == clone_token(m1, m[src].parent, lvl + 1, fail)
               IN [mem |-> [r.mem EXCEPT ![a].parent = r.addr], addr |-> a]

-----------------------------------------------------------------------------
Init ==
  /\ mem = [a \in Addrs |-> Blank]
  /\ tokens = [d \in Devices |-> Null]
  /\ released = {}
  /\ held = {}
  /\ last = [op |-> "none", res |-> Null]

\* get_token as it would be without find_token.
GetTokenNoFind(d, region) ==
  /\ d \notin released
  /\ \/ /\ FreeCells(mem) = {}
        /\ last' = [op |-> "get_token", res |-> Null]
        /\ UNCHANGED <<mem, tokens>>
     \/ /\ FreeCells(mem) # {}
        /\ LET t == Malloc(mem) IN
             /\ mem' = [mem EXCEPT ![t] = [Blank EXCEPT !.live = TRUE, !.magic = TRUE,
                          !.device = d, !.region = region, !.next = tokens[d]]]
             /\ tokens' = [tokens EXCEPT ![d] = t]
             /\ last' = [op |-> "get_token", res |-> t]
  /\ UNCHANGED <<released, held>>

\* get_token(p, region, type): return the device's token of the region, or
\* malloc one, zero it, set magic, device and region, and push it on the
\* head of p->tokens.  A failed malloc returns NULL.
GetToken(d, region) ==
  /\ d \notin released
  /\ LET found == find_token(mem, d, region) IN
     \/ /\ found # Null
        /\ last' = [op |-> "get_token", res |-> found]
        /\ UNCHANGED <<mem, tokens>>
     \/ /\ found = Null
        /\ FreeCells(mem) = {}
        /\ last' = [op |-> "get_token", res |-> Null]
        /\ UNCHANGED <<mem, tokens>>
     \/ /\ found = Null
        /\ FreeCells(mem) # {}
        /\ LET t == Malloc(mem) IN
             /\ mem' = [mem EXCEPT ![t] = [Blank EXCEPT !.live = TRUE, !.magic = TRUE,
                          !.device = d, !.region = region, !.next = tokens[d]]]
             /\ tokens' = [tokens EXCEPT ![d] = t]
             /\ last' = [op |-> "get_token", res |-> t]
  /\ UNCHANGED <<released, held>>

\* The caller that links a token to its parent (the FME token of the same
\* device, in the walk code): parent chains stay within MaxDepth.
LinkParent(d) ==
  /\ d \notin released
  /\ \E c, p \in Chain(mem, tokens[d], "next") :
       /\ c # p
       /\ mem[c].parent = Null
       /\ c \notin Chain(mem, p, "parent")
       /\ Cardinality(Chain(mem, p, "parent")) < MaxDepth
       /\ \A x \in Addrs : mem[x].live => mem[x].parent # c
       /\ mem' = [mem EXCEPT ![c].parent = p]
  /\ last' = [op |-> "link", res |-> Null]
  /\ UNCHANGED <<tokens, released, held>>

\* A client clones a token it can reach: one of a live device's list or a
\* clone it holds.  fail is the recursion level whose malloc fails (0: none).
CloneToken ==
  \E src \in UNION {Chain(mem, tokens[d], "next") : d \in Devices \ released} \cup held,
     fail \in 0..MaxDepth :
    LET r == clone_token(mem, src, 1, fail) IN
      /\ mem' = r.mem
      /\ held' = IF r.addr = Null THEN held ELSE held \cup {r.addr}
      /\ last' = [op |-> "clone_token", res |-> r.addr]
      /\ UNCHANGED <<tokens, released>>

\* free_token_list as it would be without its loop: only the head is freed.
FreeTokenListHeadOnly(d) ==
  /\ d \notin released
  /\ mem' = IF tokens[d] = Null THEN mem ELSE [mem EXCEPT ![tokens[d]].live = FALSE]
  /\ released' = released \cup {d}
  /\ last' = [op |-> "free_token_list", res |-> Null]
  /\ UNCHANGED <<tokens, held>>

\* free_token_list(p->tokens): free every token along next.  The caller
\* tears the device down, so the device is not used again.
FreeTokenList(d) ==
  /\ d \notin released
  /\ mem' = [a \in Addrs |->
               IF a \in Chain(mem, tokens[d], "next")
               THEN [mem[a] EXCEPT !.live = FALSE] ELSE mem[a]]
  /\ released' = released \cup {d}
  /\ last' = [op |-> "free_token_list", res |-> Null]
  /\ UNCHANGED <<tokens, held>>

Next ==
  \/ \E d \in Devices, r \in Regions : GetToken(d, r)
  \/ \E d \in Devices : LinkParent(d)
  \/ CloneToken
  \/ \E d \in Devices : FreeTokenList(d)

Spec == Init /\ [][Next]_vars

-----------------------------------------------------------------------------
Live(d) == Chain(mem, tokens[d], "next")
Owned   == UNION {Chain(mem, h, "parent") : h \in held}

\* get_token hands out one token per (device, region): find_token runs
\* before every insertion, so no live list holds two tokens of a region.
UniqueRegion ==
  \A d \in Devices \ released : \A a, b \in Live(d) :
    a # b => mem[a].region # mem[b].region

\* Nothing malloc'd is lost: every live block is on a live device's list or
\* on the parent chain of a clone a client holds, and freed blocks are on
\* neither (free_token_list walks the whole list; get_token links the new
\* token to the old head).
NoLostToken ==
  \A a \in Addrs :
    mem[a].live <=> (a \in Owned \/ \E d \in Devices \ released : a \in Live(d))

\* clone_token is a deep copy: the parent chain of every held clone is made
\* of its own blocks, shared with no device list and no other clone, so
\* freeing a device's tokens never leaves a clone's parent dangling.
ClonesDisjoint ==
  /\ \A h \in held : \A d \in Devices \ released : Chain(mem, h, "parent") \cap Live(d) = {}
  /\ \A h, k \in held : h # k => Chain(mem, h, "parent") \cap Chain(mem, k, "parent") = {}
  /\ \A a \in Owned : mem[a].live
\* get_token, clone_token and free_token_list implement UioTokenTable: the
\* token find_token sees for a region of a live device never changes until
\* free_token_list, a new token or clone takes only blocks nothing else
\* holds, and free_token_list releases exactly that device's tokens.
Table == INSTANCE UioTokenTable WITH
  table <- [d \in Devices |-> [r \in Regions |->
              IF d \in released THEN Null ELSE find_token(mem, d, r)]],
  inuse <- {a \in Addrs : mem[a].live}

ImplementsTokenTable == Table!Spec
=============================================================================
