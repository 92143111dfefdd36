---------------------------- MODULE ClientCache ----------------------------
(***************************************************************************)
(* The cache of GitHub clients, pkg/githubreconciler/client.go: a map from *)
(* a repository to its client, under one RWMutex for all repositories.     *)
(* Get looks under the read lock, and on a miss takes the write lock,      *)
(* looks again and asks for a token source with the lock held.             *)
(***************************************************************************)
EXTENDS Naturals

CONSTANTS
  Callers,      \* callers of Get
  Repos,        \* "org/repo", the key of the cache
  MaxClients    \* bound: clients made for a repository between two Clears

ASSUME CacheAssumption == MaxClients \in Nat \ {0}

VARIABLES
  clients,   \* clients[r]: the number of r's client, 0 for none
  made,      \* made[r]: auxiliary, clients made for r since the last Clear
  get,       \* get[w]: the call of Get by w
  writing    \* who holds cc.mu for writing, across the call of tokenSourceFunc

cacheVars == <<clients, made, get, writing>>

\* client is what Get returned.
NoGet(r) == [pc |-> "idle", repo |-> r, client |-> 0]

CacheInit ==
  /\ clients = [r \in Repos |-> 0]
  /\ made = [r \in Repos |-> 0]
  /\ get \in [Callers -> {NoGet(r) : r \in Repos}]
  /\ writing = {}

GetTo(w, pc) == get' = [get EXCEPT ![w].pc = pc]
GetReturns(w, client) ==
  get' = [get EXCEPT ![w].pc = "returned", ![w].client = client]

\* A caller of Get comes.
GetCall(w, r) ==
  /\ get[w].pc = "idle"
  /\ get' = [get EXCEPT ![w] = [NoGet(r) EXCEPT !.pc = "read"]]
  /\ UNCHANGED <<clients, made, writing>>

(* RLock, read, RUnlock. *)
GetReads(w) ==
  /\ get[w].pc = "read" /\ writing = {}
  /\ LET client == clients[get[w].repo] IN
       IF client # 0 THEN GetReturns(w, client) ELSE GetTo(w, "lock")
  /\ UNCHANGED <<clients, made, writing>>

\* Mistake: the map is not looked at again under the write lock.
GetLocksOnce(w) ==
  /\ get[w].pc = "lock" /\ writing = {}
  /\ GetTo(w, "create")
  /\ writing' = {w}
  /\ UNCHANGED <<clients, made>>

(* Lock, and the second look: somebody may have made the client since. *)
GetLocks(w) ==
  /\ get[w].pc = "lock" /\ writing = {}
  /\ LET client == clients[get[w].repo] IN
       IF client # 0 THEN GetReturns(w, client) /\ UNCHANGED writing
       ELSE GetTo(w, "create") /\ writing' = {w}
  /\ UNCHANGED <<clients, made>>

(* tokenSourceFunc returns, with the lock held: store the client. *)
GetCreates(w) ==
  LET r == get[w].repo IN
  /\ get[w].pc = "create"
  /\ made[r] < MaxClients
  /\ made' = [made EXCEPT ![r] = @ + 1]
  /\ clients' = [clients EXCEPT ![r] = made[r] + 1]
  /\ GetReturns(w, made[r] + 1)
  /\ writing' = writing \ {w}

\* Mistake: the lock is not given back when tokenSourceFunc fails.
GetFailsLocked(w) ==
  /\ get[w].pc = "create"
  /\ GetTo(w, "failed")
  /\ UNCHANGED <<clients, made, writing>>

(* tokenSourceFunc fails: Get returns its error, and the lock is free. *)
GetFails(w) ==
  /\ get[w].pc = "create"
  /\ GetTo(w, "failed")
  /\ writing' = writing \ {w}
  /\ UNCHANGED <<clients, made>>

\* The caller is done with what Get returned.
GetLeave(w) ==
  /\ get' = [get EXCEPT ![w] = NoGet(@.repo)]
  /\ UNCHANGED <<clients, made, writing>>

(* Clear, by anyone. *)
Clear ==
  /\ writing = {}
  /\ clients' = [r \in Repos |-> 0]
  /\ made' = [r \in Repos |-> 0]
  /\ UNCHANGED <<get, writing>>

-----------------------------------------------------------------------------
CacheTypeOK ==
  /\ clients \in [Repos -> 0..MaxClients]
  /\ made \in [Repos -> 0..MaxClients]
  /\ get \in [Callers -> [pc : {"idle", "read", "lock", "create", "returned", "failed"},
                          repo : Repos, client : 0..MaxClients]]
  /\ writing \subseteq Callers

\* client.go 60: "Double-check after acquiring write lock".  However the
\* callers interleave, one client is made for a repository until the cache is
\* cleared, and it is the one the map holds.
OneClientPerRepo == \A r \in Repos : made[r] <= 1 /\ clients[r] = made[r]
=============================================================================
