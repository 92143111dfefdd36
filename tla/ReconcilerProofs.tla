-------------------------- MODULE ReconcilerProofs --------------------------
(***************************************************************************)
(* A GitHub reconciler, for any URLs, repositories, page size and number   *)
(* of callbacks at a time.                                                 *)
(*                                                                         *)
(* One client is made for a repository until the cache is cleared.  Who    *)
(* makes a client holds the lock alone and has found none in the map; the  *)
(* map cannot change under it, as every change takes the lock.  The second *)
(* look is what establishes this.                                          *)
(*                                                                         *)
(* The state of a resource is in one comment, that reads what was          *)
(* committed last, and no edit reaches a comment of somebody else.  This   *)
(* rests on what a listing shows: the pages it is past have no comment     *)
(* with the marker, unless somebody deleted a comment there.               *)
(***************************************************************************)
EXTENDS Reconciler, FiniteSetTheorems, SequenceTheorems, TLAPS

-----------------------------------------------------------------------------
(* The cache of clients. *)

\* The one who makes a client.
MakerIsAlone ==
  \A w \in Callers : get[w].pc = "create" => writing = {w} /\ clients[get[w].repo] = 0

CInv == CacheTypeOK /\ MakerIsAlone /\ OneClientPerRepo

LEMMA CacheStarts == CacheInit => CInv
BY CacheAssumption DEF CacheInit, NoGet, CInv, CacheTypeOK, MakerIsAlone, OneClientPerRepo

LEMMA CacheIdles == CInv /\ UNCHANGED cacheVars => CInv'
BY DEF cacheVars, CInv, CacheTypeOK, MakerIsAlone, OneClientPerRepo

LEMMA CacheMoves ==
  ASSUME CInv, NEW w \in Callers
  PROVE  /\ \A r \in Repos : GetCall(w, r) => CInv'
         /\ GetReads(w) \/ GetLocks(w) \/ GetFails(w) \/ GetLeave(w) => CInv'
<1> USE DEF CInv, CacheTypeOK, MakerIsAlone, OneClientPerRepo
<1>0. MaxClients \in Nat
  BY CacheAssumption
<1>1. ASSUME NEW r \in Repos, GetCall(w, r) PROVE CInv'
  BY <1>0, <1>1 DEF GetCall, NoGet
<1>2. CASE GetReads(w)
  BY <1>0, <1>2 DEF GetReads, GetReturns, GetTo
<1>3. CASE GetLocks(w)
  <2>1. CASE clients[get[w].repo] # 0
    BY <1>0, <1>3, <2>1 DEF GetLocks, GetReturns
  <2>2. CASE clients[get[w].repo] = 0
    <3>1. /\ writing = {} /\ writing' = {w} /\ UNCHANGED <<clients, made>>
          /\ get' = [get EXCEPT ![w].pc = "create"]
      BY <1>3, <2>2 DEF GetLocks, GetTo
    <3> QED
      BY <2>2, <3>1
  <2> QED
    BY <2>1, <2>2
<1>4. CASE GetFails(w)
  BY <1>4 DEF GetFails, GetTo
<1>5. CASE GetLeave(w)
  BY <1>0, <1>5 DEF GetLeave, NoGet
<1> QED
  BY <1>1, <1>2, <1>3, <1>4, <1>5

\* What a call that returned holds.
LEMMA ReturnsRecord ==
  ASSUME CacheTypeOK, NEW w \in Callers, NEW c \in 0..MaxClients, GetReturns(w, c)
  PROVE  get' \in [Callers -> [pc : {"idle", "read", "lock", "create", "returned", "failed"},
                               repo : Repos, client : 0..MaxClients]]
BY DEF CacheTypeOK, GetReturns

\* The maker stores the first client there is, and lets the others in.
LEMMA CacheCreates ==
  ASSUME CInv, NEW w \in Callers, GetCreates(w)
  PROVE  CInv'
<1> DEFINE r == get[w].repo
<1>1. /\ get[w].pc = "create" /\ made[r] < MaxClients
      /\ made' = [made EXCEPT ![r] = @ + 1]
      /\ clients' = [clients EXCEPT ![r] = made[r] + 1]
      /\ get' = [get EXCEPT ![w].pc = "returned", ![w].client = made[r] + 1]
      /\ writing' = writing \ {w}
  BY DEF GetCreates, GetReturns
<1>2. r \in Repos /\ writing = {w} /\ clients[r] = 0 /\ made[r] = 0 /\ MaxClients \in Nat
  BY <1>1, CacheAssumption DEF CInv, CacheTypeOK, MakerIsAlone, OneClientPerRepo
<1>3. 1 \in 0..MaxClients
  BY <1>1, <1>2
<1>4. GetReturns(w, 1)
  BY <1>1, <1>2 DEF GetReturns
<1>5. CacheTypeOK'
  <2> USE DEF CInv, CacheTypeOK
  <2>1. clients' \in [Repos -> 0..MaxClients] /\ made' \in [Repos -> 0..MaxClients]
    BY <1>1, <1>2, <1>3
  <2>2. get' \in [Callers -> [pc : {"idle", "read", "lock", "create", "returned", "failed"},
                              repo : Repos, client : 0..MaxClients]]
    BY <1>3, <1>4, ReturnsRecord
  <2> QED
    BY <1>1, <2>1, <2>2
<1>6. MakerIsAlone'
  <2>1. \A v \in Callers : get[v].pc = "create" => v = w
    BY <1>2 DEF CInv, MakerIsAlone
  <2>2. \A v \in Callers : get'[v].pc # "create"
    BY <1>1, <2>1 DEF CInv, CacheTypeOK
  <2> QED
    BY <2>2 DEF MakerIsAlone
<1>7. OneClientPerRepo'
  BY <1>1, <1>2 DEF CInv, CacheTypeOK, OneClientPerRepo
<1> QED
  BY <1>5, <1>6, <1>7 DEF CInv

LEMMA CacheClears == CInv /\ Clear => CInv'
BY CacheAssumption DEF Clear, CInv, CacheTypeOK, MakerIsAlone, OneClientPerRepo

LEMMA StepCInv == CInv /\ [Next]_vars => CInv'
<1> SUFFICES ASSUME CInv, [Next]_vars PROVE CInv'
  OBVIOUS
<1>1. CASE UNCHANGED vars
  BY <1>1, CacheIdles DEF vars
<1>2. ASSUME NEW u \in Urls, Queue(u) PROVE CInv'
  BY <1>2, CacheIdles DEF Queue
<1>3. ASSUME NEW u \in Urls, Run(u) PROVE CInv'
  <2>1. u \in Callers /\ UrlOf[u].repo \in Repos
    BY ReconcilerAssumption DEF Urls
  <2>2. CASE Start(u)
    BY <2>1, <2>2, CacheMoves DEF Start
  <2>3. CASE StartFails(u)
    BY <2>3, CacheIdles DEF StartFails
  <2>4. CASE GetClient(u)
    BY <2>1, <2>4, CacheMoves, CacheCreates DEF GetClient
  <2>5. CASE GetFailed(u)
    BY <2>1, <2>5, CacheMoves DEF GetFailed
  <2>6. CASE Reconcile(u)
    BY <2>1, <2>6, CacheMoves DEF Reconcile
  <2>7. CASE Work(u) \/ NextState(u) \/ Returns(u)
    BY <2>7, CacheIdles DEF Work, NextState, Returns
  <2> QED
    BY <1>3, <2>2, <2>3, <2>4, <2>5, <2>6, <2>7 DEF Run
<1>4. ASSUME NEW u \in Urls, WorkFails(u) PROVE CInv'
  BY <1>4, CacheIdles DEF WorkFails
<1>5. CASE ClearCache
  BY <1>5, CacheClears DEF ClearCache
<1>6. CASE People
  BY <1>6, CacheIdles DEF People
<1> QED
  BY <1>1, <1>2, <1>3, <1>4, <1>5, <1>6 DEF Next

\* OneClientPerRepo: however the callbacks interleave, and whichever of them
\* fail, a repository gets one client until the cache is cleared.
THEOREM ClientsAreUnique == Spec => []OneClientPerRepo
<1>1. CInv => OneClientPerRepo
  BY DEF CInv
<1>2. Init => CInv
  BY CacheStarts DEF Init
<1> QED
  BY <1>1, <1>2, StepCInv, PTL DEF Spec

-----------------------------------------------------------------------------
(* The comment with the state. *)

\* Where the comments with the marker are.
Marked == {i \in DOMAIN comments : comments[i].body # Foreign}

IdsAreUnique ==
  /\ Len(comments) <= posted
  /\ \A i \in DOMAIN comments : comments[i].id <= posted
  /\ \A i, j \in DOMAIN comments : comments[i].id = comments[j].id => i = j

\* Who is about to edit has the identifier of a comment with the marker, also
\* when that is gone since.
FoundIsMarked ==
  \A w \in Workers : op[w].pc = "edit" =>
    /\ op[w].found <= posted
    /\ \A i \in DOMAIN comments : comments[i].id = op[w].found => i \in Marked

OneActive == \A v, w \in Workers : op[v].pc # "idle" /\ op[w].pc # "idle" => v = w
OneMarked == \A i, j \in Marked : i = j

\* A listing has passed no comment with the marker, and who is about to create
\* one has seen that there is none.
PassedUnmarked == \A w \in Workers :
  /\ op[w].pc \in {"fetch", "find"} => \A i \in Marked : i > (op[w].page - 1) * PageSize
  /\ op[w].pc = "create" => Marked = {}

Alone == OneActive /\ OneMarked /\ PassedUnmarked

\* The comment reads what the last commit wrote.
StoredIsMarked ==
  /\ \A i \in Marked : comments[i].body = stored
  /\ stored # 0 => Marked # {}

\* What a worker is about to write is the next state.
StatesFollow == \A w \in Workers :
  /\ op[w].pc = "fetch" => op[w].state = 0
  /\ op[w].pc \in {"fetched", "committed"} => op[w].state = stored
  /\ op[w].pc \in {"find", "edit", "create"} => op[w].state = stored + 1

CommentInv ==
  /\ CommentTypeOK /\ IdsAreUnique /\ FoundIsMarked
  /\ disturbed \intersect {"overlap", "shift"} = {} => Alone
  /\ disturbed = {} => StoredIsMarked /\ StatesFollow

Comment == [id : 1..MaxComments, body : Foreign..Target]
Operations ==
  [pc : {"idle", "fetch", "fetched", "find", "edit", "create", "committed", "failed"},
   page : 1..(MaxComments + 1), found : 0..MaxComments, state : 0..Target]

\* A set of numbers has a least one, as its initial segments are well-founded.
LEMMA MinOfNats ==
  ASSUME NEW S, S \subseteq Nat, S # {}
  PROVE  Min(S) \in S /\ \A y \in S : Min(S) <= y
<1> DEFINE T == {0..i : i \in S}
<1>1. T \subseteq FiniteSubsetsOf(Nat) /\ T # {}
  <2>1. \A i \in S : 0..i \in SUBSET Nat /\ IsFiniteSet(0..i)
    BY FS_Interval
  <2> QED
    BY <2>1 DEF FiniteSubsetsOf
<1>2. PICK X \in T : \A Y \in T : <<Y, X>> \notin StrictSubsetOrdering(Nat)
  BY <1>1, FS_StrictSubsetOrderingWellFounded, WFMin
<1>3. PICK x \in S : X = 0..x
  OBVIOUS
<1>4. ASSUME NEW y \in S PROVE x <= y
  <2> SUFFICES ASSUME y < x PROVE FALSE
    BY <1>4
  <2>1. 0..y \subseteq 0..x /\ 0..y # 0..x /\ 0..y \in T
    OBVIOUS
  <2>2. <<0..y, X>> \in StrictSubsetOrdering(Nat)
    BY <1>3, <2>1 DEF StrictSubsetOrdering
  <2> QED
    BY <1>2, <2>1, <2>2
<1> QED
  BY <1>4 DEF Min

LEMMA CommentTypes ==
  ASSUME CommentTypeOK
  PROVE  /\ comments \in Seq(Comment) /\ Len(comments) \in 0..MaxComments
         /\ DOMAIN comments = 1..Len(comments)
         /\ \A i \in DOMAIN comments : comments[i] \in Comment
         /\ MaxComments \in Nat /\ PageSize \in Nat \ {0} /\ Target \in Nat \ {0}
         /\ posted \in 0..MaxComments /\ stored \in 0..Target
         /\ \A w \in Workers : op[w] \in Operations
<1>1. comments \in Seq(Comment) /\ Len(comments) <= MaxComments /\ MaxComments \in Nat
  BY CommentAssumption DEF CommentTypeOK, Comment
<1>2. Len(comments) \in Nat /\ DOMAIN comments = 1..Len(comments)
  BY <1>1
<1>3. \A i \in DOMAIN comments : comments[i] \in Comment
  BY <1>1, <1>2
<1> QED
  BY <1>1, <1>2, <1>3, CommentAssumption DEF CommentTypeOK, Operations

LEMMA CommentStarts == CommentInit => CommentInv
<1> SUFFICES ASSUME CommentInit PROVE CommentInv
  OBVIOUS
<1>1. CommentTypeOK
  BY CommentAssumption DEF CommentInit, CommentTypeOK, NoOp, Foreign
<1>2. DOMAIN comments = {} /\ Marked = {}
  BY DEF CommentInit, Marked
<1>3. \A w \in Workers : op[w].pc = "idle"
  BY DEF CommentInit, NoOp
<1> QED
  BY <1>1, <1>2, <1>3 DEF CommentInit, CommentInv, IdsAreUnique, FoundIsMarked, Alone,
     OneActive, OneMarked, PassedUnmarked, StoredIsMarked, StatesFollow

LEMMA CommentIdles == CommentInv /\ UNCHANGED commentVars => CommentInv'
BY DEF commentVars, CommentInv, CommentTypeOK, IdsAreUnique, FoundIsMarked, Alone,
   OneActive, OneMarked, PassedUnmarked, StoredIsMarked, StatesFollow, Marked

\* What a worker's operation may become while the comments stay.
LEMMA OperationMoves ==
  ASSUME CommentInv, NEW w \in Workers, NEW o \in Operations,
         op' = [op EXCEPT ![w] = o], UNCHANGED <<comments, posted, stored>>,
         disturbed \subseteq disturbed', disturbed' \subseteq {"overlap", "shift", "edit"},
         o.pc = "edit" => /\ o.found <= posted
                          /\ \A i \in DOMAIN comments : comments[i].id = o.found => i \in Marked,
         disturbed' \intersect {"overlap", "shift"} = {} =>
           /\ o.pc # "idle" => \A v \in Workers : v # w => op[v].pc = "idle"
           /\ o.pc \in {"fetch", "find"} => \A i \in Marked : i > (o.page - 1) * PageSize
           /\ o.pc = "create" => Marked = {},
         disturbed' = {} =>
           /\ o.pc = "fetch" => o.state = 0
           /\ o.pc \in {"fetched", "committed"} => o.state = stored
           /\ o.pc \in {"find", "edit", "create"} => o.state = stored + 1
  PROVE  CommentInv'
<1>1. \A v \in Workers : op'[v] = IF v = w THEN o ELSE op[v]
  BY DEF CommentInv, CommentTypeOK
<1>2. Marked' = Marked
  BY DEF Marked
<1>3. CommentTypeOK'
  BY DEF CommentInv, CommentTypeOK, Operations
<1>4. IdsAreUnique' /\ FoundIsMarked'
  BY <1>1, <1>2 DEF CommentInv, IdsAreUnique, FoundIsMarked
<1>5. disturbed' \intersect {"overlap", "shift"} = {} => Alone'
  BY <1>1, <1>2 DEF CommentInv, Alone, OneActive, OneMarked, PassedUnmarked
<1>6. disturbed' = {} => StoredIsMarked' /\ StatesFollow'
  BY <1>1, <1>2 DEF CommentInv, StoredIsMarked, StatesFollow
<1> QED
  BY <1>3, <1>4, <1>5, <1>6 DEF CommentInv

\* What a page of a listing shows.
LEMMA PageFacts ==
  ASSUME CommentTypeOK, NEW p \in 1..(MaxComments + 1)
  PROVE  /\ Ours(p) # {} => Min(Ours(p)) \in Marked
         /\ Ours(p) = {} /\ (\A i \in Marked : i > (p - 1) * PageSize) =>
              \A i \in Marked : i > p * PageSize
         /\ ~NextPage(p) /\ (\A i \in Marked : i > p * PageSize) => Marked = {}
         /\ NextPage(p) => p + 1 \in 1..(MaxComments + 1)
<1>1. p * PageSize \in Nat /\ p * PageSize >= p /\ (p - 1) * PageSize \in Nat
  BY CommentTypes
<1>2. Ours(p) \subseteq Marked /\ Marked \subseteq Nat
  BY CommentTypes DEF Ours, Page, Marked
<1>3. Ours(p) # {} => Min(Ours(p)) \in Marked
  BY <1>2, MinOfNats
<1>4. Ours(p) = {} /\ (\A i \in Marked : i > (p - 1) * PageSize) =>
        \A i \in Marked : i > p * PageSize
  <2> SUFFICES ASSUME NEW i \in Marked, i > (p - 1) * PageSize, i <= p * PageSize
               PROVE  i \in Ours(p)
    BY <1>1, <1>2
  <2> QED
    BY DEF Ours, Page, Marked
<1>5. ~NextPage(p) /\ (\A i \in Marked : i > p * PageSize) => Marked = {}
  BY <1>1, CommentTypes DEF NextPage, Marked
<1>6. NextPage(p) => p + 1 \in 1..(MaxComments + 1)
  BY <1>1, CommentTypes DEF NextPage
<1> QED
  BY <1>3, <1>4, <1>5, <1>6

LEMMA FetchCallKeeps ==
  ASSUME CommentInv, NEW w \in Workers, FetchCall(w)
  PROVE  CommentInv'
<1> DEFINE o == [NoOp EXCEPT !.pc = "fetch"]
<1>1. o \in Operations /\ o.pc = "fetch" /\ o.page = 1 /\ o.state = 0
  BY CommentTypes DEF CommentInv, NoOp, Operations
<1>2. /\ disturbed' \subseteq {"overlap", "shift", "edit"} /\ disturbed \subseteq disturbed'
      /\ "overlap" \in disturbed' \/ \A v \in Workers : op[v].pc = "idle"
  BY DEF FetchCall, CommentInv, CommentTypeOK
<1>3. \A i \in Marked : i > (o.page - 1) * PageSize
  BY <1>1, CommentTypes DEF Marked, CommentInv
<1>4. op' = [op EXCEPT ![w] = o] /\ UNCHANGED <<comments, posted, stored>>
  BY DEF FetchCall
<1> HIDE DEF o
<1> QED
  BY <1>1, <1>2, <1>3, <1>4, OperationMoves

LEMMA FetchPageKeeps ==
  ASSUME CommentInv, NEW w \in Workers, FetchPage(w)
  PROVE  CommentInv'
<1> DEFINE p == op[w].page
           hits == Ours(p)
<1>0. /\ op[w] \in Operations /\ op[w].pc = "fetch" /\ p \in 1..(MaxComments + 1)
      /\ UNCHANGED <<comments, posted, stored, disturbed>>
      /\ disturbed \subseteq {"overlap", "shift", "edit"}
  BY CommentTypes DEF FetchPage, Operations, CommentInv, CommentTypeOK
<1>1. /\ disturbed \intersect {"overlap", "shift"} = {} =>
           (\A v \in Workers : v # w => op[v].pc = "idle")
           /\ (\A i \in Marked : i > (p - 1) * PageSize)
      /\ disturbed = {} => op[w].state = 0
  BY <1>0 DEF CommentInv, Alone, OneActive, PassedUnmarked, StatesFollow
<1>2. CASE hits # {}
  <2> DEFINE o == [op[w] EXCEPT !.pc = "fetched", !.state = comments[Min(hits)].body]
  <2>1. Min(hits) \in Marked
    BY <1>0, <1>2, PageFacts DEF CommentInv
  <2>2. comments[Min(hits)].body \in 0..Target
    BY <2>1, CommentTypes DEF Marked, CommentInv, Comment, Foreign
  <2>3. o \in Operations /\ o.pc = "fetched" /\ o.state = comments[Min(hits)].body
    BY <1>0, <2>2 DEF Operations
  <2>4. disturbed = {} => o.state = stored
    BY <2>1, <2>3 DEF CommentInv, StoredIsMarked
  <2>5. op' = [op EXCEPT ![w] = o]
    BY <1>2 DEF FetchPage
  <2> HIDE DEF o
  <2> QED
    BY <1>0, <1>1, <2>3, <2>4, <2>5, OperationMoves
<1>3. CASE hits = {} /\ NextPage(p)
  <2> DEFINE o == [op[w] EXCEPT !.page = p + 1]
  <2>1. p + 1 \in 1..(MaxComments + 1)
    BY <1>0, <1>3, PageFacts DEF CommentInv
  <2>2. o \in Operations /\ o.pc = "fetch" /\ o.page - 1 = p /\ o.state = op[w].state
    BY <1>0, <2>1 DEF Operations
  <2>3. (\A i \in Marked : i > (p - 1) * PageSize) => \A i \in Marked : i > p * PageSize
    BY <1>0, <1>3, PageFacts DEF CommentInv
  <2>4. op' = [op EXCEPT ![w] = o]
    BY <1>3 DEF FetchPage
  <2> HIDE DEF o
  <2> QED
    BY <1>0, <1>1, <2>2, <2>3, <2>4, OperationMoves
<1>4. CASE hits = {} /\ ~NextPage(p)
  <2> DEFINE o == [op[w] EXCEPT !.pc = "fetched"]
  <2>1. o \in Operations /\ o.pc = "fetched" /\ o.state = op[w].state
    BY <1>0 DEF Operations
  <2>2. (\A i \in Marked : i > (p - 1) * PageSize) => Marked = {}
    BY <1>0, <1>4, PageFacts DEF CommentInv
  <2>3. disturbed = {} => o.state = stored
    BY <1>1, <2>1, <2>2 DEF CommentInv, StoredIsMarked
  <2>4. op' = [op EXCEPT ![w] = o]
    BY <1>4 DEF FetchPage
  <2> HIDE DEF o
  <2> QED
    BY <1>0, <1>1, <2>1, <2>3, <2>4, OperationMoves
<1> QED
  BY <1>2, <1>3, <1>4

LEMMA CommitCallKeeps ==
  ASSUME CommentInv, NEW w \in Workers, op[w].state < Target, CommitCall(w, op[w].state + 1)
  PROVE  CommentInv'
<1> DEFINE o == [NoOp EXCEPT !.pc = "find", !.state = op[w].state + 1]
<1>0. op[w] \in Operations /\ op[w].pc = "fetched"
      /\ disturbed \subseteq {"overlap", "shift", "edit"}
  BY CommentTypes DEF CommitCall, CommentInv, CommentTypeOK
<1>1. o \in Operations /\ o.pc = "find" /\ o.page = 1 /\ o.state = op[w].state + 1
  <2>1. op[w].state \in 0..Target
    BY <1>0 DEF Operations
  <2>2. op[w].state + 1 \in 0..Target /\ MaxComments \in Nat
    BY <2>1, CommentAssumption
  <2>3. NoOp \in Operations /\ NoOp.page = 1
    BY <2>2, CommentTypes DEF CommentInv, NoOp, Operations
  <2> QED
    BY <2>2, <2>3 DEF Operations
<1>2. /\ disturbed \intersect {"overlap", "shift"} = {} =>
           \A v \in Workers : v # w => op[v].pc = "idle"
      /\ disturbed = {} => o.state = stored + 1
  BY <1>0, <1>1 DEF CommentInv, Alone, OneActive, StatesFollow
<1>3. \A i \in Marked : i > (o.page - 1) * PageSize
  BY <1>1, CommentTypes DEF Marked, CommentInv
<1>4. op' = [op EXCEPT ![w] = o] /\ UNCHANGED <<comments, posted, stored, disturbed>>
  BY DEF CommitCall
<1> HIDE DEF o
<1> QED
  BY <1>0, <1>1, <1>2, <1>3, <1>4, OperationMoves

LEMMA FindPageKeeps ==
  ASSUME CommentInv, NEW w \in Workers, FindPage(w)
  PROVE  CommentInv'
<1> DEFINE p == op[w].page
           hits == Ours(p)
           first == comments[Min(hits)]
<1>0. /\ op[w] \in Operations /\ op[w].pc = "find" /\ p \in 1..(MaxComments + 1)
      /\ UNCHANGED <<comments, posted, stored, disturbed>>
      /\ disturbed \subseteq {"overlap", "shift", "edit"}
  BY CommentTypes DEF FindPage, Operations, CommentInv, CommentTypeOK
<1>1. /\ disturbed \intersect {"overlap", "shift"} = {} =>
           (\A v \in Workers : v # w => op[v].pc = "idle")
           /\ (\A i \in Marked : i > (p - 1) * PageSize)
      /\ disturbed = {} => op[w].state = stored + 1
  BY <1>0 DEF CommentInv, Alone, OneActive, PassedUnmarked, StatesFollow
<1>2. ASSUME hits # {} PROVE Min(hits) \in Marked
  BY <1>0, <1>2, PageFacts DEF CommentInv
<1>3. \/ hits # {} /\ first.body = op[w].state /\ op' = [op EXCEPT ![w].pc = "committed"]
      \/ hits # {} /\ op' = [op EXCEPT ![w].pc = "edit", ![w].found = first.id]
      \/ hits = {}
  BY DEF FindPage
<1>4. CASE /\ hits # {} /\ first.body = op[w].state
           /\ op' = [op EXCEPT ![w].pc = "committed"]
  <2> DEFINE o == [op[w] EXCEPT !.pc = "committed"]
  <2>1. o \in Operations /\ o.pc = "committed" /\ o.state = op[w].state
    BY <1>0 DEF Operations
  <2>2. disturbed = {} => o.state = stored
    BY <1>2, <1>4, <2>1 DEF CommentInv, StoredIsMarked
  <2>3. op' = [op EXCEPT ![w] = o]
    BY <1>4
  <2> HIDE DEF o
  <2> QED
    BY <1>0, <1>1, <2>1, <2>2, <2>3, OperationMoves
<1>5. CASE hits # {} /\ op' = [op EXCEPT ![w].pc = "edit", ![w].found = first.id]
  <2> DEFINE o == [op[w] EXCEPT !.pc = "edit", !.found = first.id]
  <2>1. first.id \in 0..MaxComments /\ first.id <= posted
    BY <1>2, <1>5, CommentTypes DEF CommentInv, IdsAreUnique, Marked, Comment
  <2>2. o \in Operations /\ o.pc = "edit" /\ o.found = first.id /\ o.state = op[w].state
    BY <1>0, <2>1 DEF Operations
  <2>3. \A i \in DOMAIN comments : comments[i].id = first.id => i \in Marked
    BY <1>2, <1>5 DEF CommentInv, IdsAreUnique, Marked
  <2>4. op' = [op EXCEPT ![w] = o]
    BY <1>5
  <2> HIDE DEF o
  <2> QED
    BY <1>0, <1>1, <2>1, <2>2, <2>3, <2>4, OperationMoves
<1>6. CASE hits = {} /\ NextPage(p)
  <2> DEFINE o == [op[w] EXCEPT !.page = p + 1]
  <2>1. p + 1 \in 1..(MaxComments + 1)
    BY <1>0, <1>6, PageFacts DEF CommentInv
  <2>2. o \in Operations /\ o.pc = "find" /\ o.page - 1 = p /\ o.state = op[w].state
    BY <1>0, <2>1 DEF Operations
  <2>3. (\A i \in Marked : i > (p - 1) * PageSize) => \A i \in Marked : i > p * PageSize
    BY <1>0, <1>6, PageFacts DEF CommentInv
  <2>4. op' = [op EXCEPT ![w] = o]
    BY <1>6 DEF FindPage
  <2> HIDE DEF o
  <2> QED
    BY <1>0, <1>1, <2>2, <2>3, <2>4, OperationMoves
<1>7. CASE hits = {} /\ ~NextPage(p)
  <2> DEFINE o == [op[w] EXCEPT !.pc = "create"]
  <2>1. o \in Operations /\ o.pc = "create" /\ o.state = op[w].state
    BY <1>0 DEF Operations
  <2>2. (\A i \in Marked : i > (p - 1) * PageSize) => Marked = {}
    BY <1>0, <1>7, PageFacts DEF CommentInv
  <2>3. op' = [op EXCEPT ![w] = o]
    BY <1>7 DEF FindPage
  <2> HIDE DEF o
  <2> QED
    BY <1>0, <1>1, <2>1, <2>2, <2>3, OperationMoves
<1> QED
  BY <1>3, <1>4, <1>5, <1>6, <1>7

\* An operation that ends, with an error or for good.
LEMMA EndKeeps ==
  ASSUME CommentInv, NEW w \in Workers, CallFails(w) \/ EditMisses(w) \/ Leave(w)
  PROVE  CommentInv'
<1>0. /\ op[w] \in Operations /\ UNCHANGED <<comments, posted, stored, disturbed>>
      /\ disturbed \subseteq {"overlap", "shift", "edit"}
  BY CommentTypes DEF CallFails, EditMisses, Leave, CommentInv, CommentTypeOK
<1>1. CASE CallFails(w) \/ EditMisses(w)
  <2> DEFINE o == [op[w] EXCEPT !.pc = "failed"]
  <2>1. o \in Operations /\ o.pc = "failed"
    BY <1>0 DEF Operations
  <2>2. op' = [op EXCEPT ![w] = o] /\ op[w].pc # "idle"
    BY <1>1 DEF CallFails, EditMisses, To
  <2>3. disturbed \intersect {"overlap", "shift"} = {} =>
          \A v \in Workers : v # w => op[v].pc = "idle"
    BY <2>2 DEF CommentInv, Alone, OneActive
  <2> HIDE DEF o
  <2> QED
    BY <1>0, <2>1, <2>2, <2>3, OperationMoves
<1>2. CASE Leave(w)
  <2>1. NoOp \in Operations /\ NoOp.pc = "idle"
    BY CommentTypes DEF NoOp, Operations, CommentInv
  <2> QED
    BY <1>0, <1>2, <2>1, OperationMoves DEF Leave
<1> QED
  BY <1>1, <1>2

\* A comment with the marker is written, and keeps it.
LEMMA WriteOne ==
  ASSUME CommentTypeOK, NEW i \in Marked, NEW b \in 0..Target,
         comments' = [comments EXCEPT ![i].body = b]
  PROVE  /\ comments' \in Seq(Comment) /\ Len(comments') = Len(comments)
         /\ DOMAIN comments' = DOMAIN comments
         /\ \A j \in DOMAIN comments :
              /\ comments'[j].id = comments[j].id
              /\ comments'[j].body = IF j = i THEN b ELSE comments[j].body
         /\ Marked' = Marked
<1> DEFINE new == [comments[i] EXCEPT !.body = b]
<1>1. i \in 1..Len(comments) /\ comments[i] \in Comment
  BY CommentTypes DEF Marked
<1>2. new \in Comment /\ new.id = comments[i].id /\ new.body = b
  BY <1>1 DEF Comment, Foreign
<1>3. comments' = [comments EXCEPT ![i] = new]
  OBVIOUS
<1> HIDE DEF new
<1>4. comments' \in Seq(Comment) /\ Len(comments') = Len(comments)
      /\ \A j \in 1..Len(comments) : comments'[j] = IF j = i THEN new ELSE comments[j]
  BY <1>1, <1>2, <1>3, CommentTypes, ExceptSeq
<1>5. DOMAIN comments' = DOMAIN comments
  BY <1>4, CommentTypes
<1>6. \A j \in DOMAIN comments :
        /\ comments'[j].id = comments[j].id
        /\ comments'[j].body = IF j = i THEN b ELSE comments[j].body
  BY <1>2, <1>4, CommentTypes
<1>7. Marked' = Marked
  BY <1>5, <1>6 DEF Marked, Foreign
<1> QED
  BY <1>4, <1>5, <1>6, <1>7

\* A comment is posted.
LEMMA PostOne ==
  ASSUME CommentTypeOK, IdsAreUnique, posted < MaxComments, NEW b \in Foreign..Target,
         posted' = posted + 1, comments' = Append(comments, [id |-> posted + 1, body |-> b])
  PROVE  /\ comments' \in Seq(Comment) /\ Len(comments') = Len(comments) + 1
         /\ DOMAIN comments' = 1..(Len(comments) + 1)
         /\ \A j \in DOMAIN comments : comments'[j] = comments[j]
         /\ comments'[Len(comments) + 1].id = posted + 1
         /\ comments'[Len(comments) + 1].body = b
         /\ Marked' = Marked \union (IF b = Foreign THEN {} ELSE {Len(comments) + 1})
         /\ posted' \in 0..MaxComments /\ Len(comments') <= MaxComments
         /\ IdsAreUnique'
<1> DEFINE new == [id |-> posted + 1, body |-> b]
<1>1. posted \in 0..MaxComments /\ Len(comments) \in Nat /\ Len(comments) <= posted
      /\ MaxComments \in Nat
  BY CommentTypes DEF IdsAreUnique
<1>2. posted + 1 \in 1..MaxComments
  BY <1>1
<1>3. new \in Comment /\ new.id = posted + 1 /\ new.body = b
  BY <1>2 DEF Comment
<1> HIDE DEF new
<1>4. comments' = Append(comments, new)
  BY DEF new
<1>5. /\ comments' \in Seq(Comment) /\ Len(comments') = Len(comments) + 1
      /\ DOMAIN comments' = 1..(Len(comments) + 1)
      /\ \A j \in DOMAIN comments : comments'[j] = comments[j]
      /\ comments'[Len(comments) + 1] = new
  BY <1>3, <1>4, CommentTypes, AppendProperties
<1>6. Marked' = Marked \union (IF b = Foreign THEN {} ELSE {Len(comments) + 1})
  BY <1>1, <1>3, <1>5, CommentTypes DEF Marked
<1>7. IdsAreUnique'
  <2>1. \A j \in DOMAIN comments : comments[j].id \in Nat /\ comments[j].id <= posted
    BY CommentTypes DEF IdsAreUnique, Comment
  <2>2. \A j \in DOMAIN comments' : j \in DOMAIN comments \/ j = Len(comments) + 1
    BY <1>1, <1>5, CommentTypes
  <2>3. \A j \in DOMAIN comments' : comments'[j].id <= posted'
    BY <1>1, <1>3, <1>5, <2>1, <2>2
  <2>4. \A i, j \in DOMAIN comments' : comments'[i].id = comments'[j].id => i = j
    BY <1>1, <1>3, <1>5, <2>1, <2>2 DEF IdsAreUnique
  <2> QED
    BY <1>1, <1>5, <2>3, <2>4 DEF IdsAreUnique
<1> QED
  BY <1>1, <1>2, <1>3, <1>5, <1>6, <1>7

\* A comment is deleted, and those after it move up.
LEMMA DeleteOne ==
  ASSUME CommentTypeOK, IdsAreUnique, NEW i \in DOMAIN comments,
         comments' = [j \in 1..(Len(comments) - 1) |->
                        IF j < i THEN comments[j] ELSE comments[j + 1]],
         posted' = posted
  PROVE  /\ comments' \in Seq(Comment) /\ Len(comments') <= MaxComments
         /\ \A j \in DOMAIN comments' :
              \E k \in DOMAIN comments : /\ k = IF j < i THEN j ELSE j + 1
                                         /\ comments'[j] = comments[k]
         /\ IdsAreUnique'
<1>1. i \in 1..Len(comments) /\ Len(comments) \in 0..MaxComments /\ Len(comments) <= posted
      /\ posted \in Nat /\ MaxComments \in Nat
  BY CommentTypes DEF IdsAreUnique
<1>2. Len(comments) - 1 \in Nat /\ DOMAIN comments' = 1..(Len(comments) - 1)
  BY <1>1
<1>3. \A j \in DOMAIN comments' :
        \E k \in DOMAIN comments : /\ k = IF j < i THEN j ELSE j + 1
                                   /\ comments'[j] = comments[k]
  BY <1>1, <1>2, CommentTypes
<1>4. \A j \in DOMAIN comments' : comments'[j] \in Comment
  BY <1>3, CommentTypes
<1>5. comments' \in Seq(Comment) /\ Len(comments') = Len(comments) - 1
  <2>1. comments' \in [1..(Len(comments) - 1) -> Comment]
    BY <1>2, <1>4
  <2> QED
    BY <1>2, <2>1, SeqDef, LenProperties
<1>6. \A j \in DOMAIN comments' : comments'[j].id <= posted'
  BY <1>3 DEF IdsAreUnique
<1>7. \A j, k \in DOMAIN comments' : comments'[j].id = comments'[k].id => j = k
  BY <1>2, <1>3 DEF IdsAreUnique
<1>8. IdsAreUnique'
  BY <1>1, <1>5, <1>6, <1>7 DEF IdsAreUnique
<1> QED
  BY <1>1, <1>3, <1>5, <1>8

LEMMA EditKeeps ==
  ASSUME CommentInv, NEW w \in Workers, NEW answer \in {"committed", "failed"},
         EditComment(w, answer)
  PROVE  CommentInv'
<1>0. /\ op[w] \in Operations /\ op[w].pc = "edit" /\ At(op[w].found) # {}
      /\ UNCHANGED <<posted, disturbed>> /\ stored' = op[w].state
      /\ CommentTypeOK /\ IdsAreUnique
  BY CommentTypes DEF EditComment, CommentInv
<1> PICK i \in At(op[w].found) : TRUE
  BY <1>0
<1>1. At(op[w].found) = {i} /\ i \in Marked
  BY <1>0 DEF CommentInv, IdsAreUnique, FoundIsMarked, At
<1>2. Max(At(op[w].found)) = i
  BY <1>1, CommentTypes DEF Max, Marked, CommentInv
<1>3. op[w].state \in 0..Target /\ comments' = [comments EXCEPT ![i].body = op[w].state]
  BY <1>0, <1>2 DEF EditComment, Operations
<1>4. /\ comments' \in Seq(Comment) /\ Len(comments') = Len(comments)
      /\ DOMAIN comments' = DOMAIN comments
      /\ \A j \in DOMAIN comments :
           /\ comments'[j].id = comments[j].id
           /\ comments'[j].body = IF j = i THEN op[w].state ELSE comments[j].body
      /\ Marked' = Marked
  BY <1>0, <1>1, <1>3, WriteOne
<1> DEFINE o == [op[w] EXCEPT !.pc = answer]
<1>5. o \in Operations /\ o.pc = answer /\ o.state = op[w].state
  BY <1>0 DEF Operations
<1>6. op' = [op EXCEPT ![w] = o]
  BY DEF EditComment, To
<1> HIDE DEF o
<1>7. \A v \in Workers : op'[v] = IF v = w THEN o ELSE op[v]
  BY <1>0, <1>6 DEF CommentTypeOK
<1>8. CommentTypeOK'
  BY <1>0, <1>3, <1>4, <1>5, <1>6 DEF CommentTypeOK, Comment, Operations
<1>9. IdsAreUnique'
  BY <1>0, <1>4 DEF IdsAreUnique
<1>10. FoundIsMarked'
  BY <1>0, <1>4, <1>5, <1>7 DEF CommentInv, FoundIsMarked
<1>11. disturbed' \intersect {"overlap", "shift"} = {} => Alone'
  <2> SUFFICES ASSUME Alone PROVE Alone'
    BY <1>0 DEF CommentInv
  <2> QED
    BY <1>0, <1>4, <1>5, <1>7 DEF Alone, OneActive, OneMarked, PassedUnmarked
<1>12. disturbed' = {} => StoredIsMarked' /\ StatesFollow'
  <2> SUFFICES ASSUME Alone, StoredIsMarked, StatesFollow PROVE StoredIsMarked' /\ StatesFollow'
    BY <1>0 DEF CommentInv
  <2>1. StoredIsMarked'
    BY <1>0, <1>1, <1>4 DEF Alone, OneMarked, StoredIsMarked, Marked
  <2>2. \A v \in Workers : v # w => op'[v].pc = "idle"
    BY <1>0, <1>7 DEF Alone, OneActive
  <2>3. StatesFollow'
    BY <1>0, <1>5, <1>7, <2>2 DEF StatesFollow
  <2> QED
    BY <2>1, <2>3
<1> QED
  BY <1>8, <1>9, <1>10, <1>11, <1>12 DEF CommentInv

LEMMA CreateKeeps ==
  ASSUME CommentInv, NEW w \in Workers, NEW answer \in {"committed", "failed"},
         CreateComment(w, answer)
  PROVE  CommentInv'
<1> DEFINE n == Len(comments) + 1
<1>0. /\ op[w] \in Operations /\ op[w].pc = "create" /\ disturbed' = disturbed
      /\ stored' = op[w].state /\ posted' = posted + 1 /\ posted < MaxComments
      /\ comments' = Append(comments, [id |-> posted + 1, body |-> op[w].state])
      /\ CommentTypeOK /\ IdsAreUnique
  BY CommentTypes DEF CreateComment, CommentInv
<1>1. op[w].state \in 0..Target /\ op[w].state \in Foreign..Target /\ op[w].state # Foreign
  BY <1>0 DEF Operations, Foreign
<1>2. /\ comments' \in Seq(Comment) /\ DOMAIN comments' = 1..n
      /\ \A j \in DOMAIN comments : comments'[j] = comments[j]
      /\ comments'[n].id = posted + 1 /\ comments'[n].body = op[w].state
      /\ Marked' = Marked \union {n}
      /\ posted' \in 0..MaxComments /\ Len(comments') <= MaxComments
      /\ IdsAreUnique'
  BY <1>0, <1>1, PostOne
<1> DEFINE o == [op[w] EXCEPT !.pc = answer]
<1>3. o \in Operations /\ o.pc = answer /\ o.state = op[w].state
  BY <1>0 DEF Operations
<1>4. op' = [op EXCEPT ![w] = o]
  BY DEF CreateComment, To
<1> HIDE DEF o
<1>5. \A v \in Workers : op'[v] = IF v = w THEN o ELSE op[v]
  BY <1>0, <1>4 DEF CommentTypeOK
<1>6. CommentTypeOK'
  BY <1>0, <1>1, <1>2, <1>3, <1>4 DEF CommentTypeOK, Comment, Operations
<1>7. FoundIsMarked'
  <2> SUFFICES ASSUME NEW v \in Workers, op'[v].pc = "edit"
               PROVE  /\ op'[v].found <= posted'
                      /\ \A i \in DOMAIN comments' : comments'[i].id = op'[v].found => i \in Marked'
    BY DEF FoundIsMarked
  <2>0. op'[v] = op[v]
    BY <1>3, <1>5
  <2>1. op[v].found <= posted /\ op[v].found \in Nat /\ posted \in Nat
    BY <1>0, <2>0, CommentTypes DEF FoundIsMarked, CommentInv, Operations
  <2>2. \A i \in DOMAIN comments' : i \in DOMAIN comments \/ i = n
    BY <1>0, <1>2, CommentTypes
  <2> QED
    BY <1>0, <1>2, <2>0, <2>1, <2>2 DEF CommentInv, FoundIsMarked
<1>8. disturbed' \intersect {"overlap", "shift"} = {} => Alone'
  <2> SUFFICES ASSUME Alone PROVE Alone'
    BY <1>0 DEF CommentInv
  <2>1. \A v \in Workers : v # w => op'[v].pc = "idle"
    BY <1>0, <1>5 DEF Alone, OneActive
  <2>2. Marked' = {n}
    BY <1>0, <1>2 DEF Alone, PassedUnmarked
  <2> QED
    BY <1>3, <1>5, <2>1, <2>2 DEF Alone, OneActive, OneMarked, PassedUnmarked
<1>9. disturbed' = {} => StoredIsMarked' /\ StatesFollow'
  <2> SUFFICES ASSUME Alone PROVE StoredIsMarked' /\ StatesFollow'
    BY <1>0 DEF CommentInv
  <2>1. \A v \in Workers : v # w => op'[v].pc = "idle"
    BY <1>0, <1>5 DEF Alone, OneActive
  <2>2. Marked' = {n}
    BY <1>0, <1>2 DEF Alone, PassedUnmarked
  <2> QED
    BY <1>0, <1>2, <1>3, <1>5, <2>1, <2>2 DEF StoredIsMarked, StatesFollow
<1> QED
  BY <1>2, <1>6, <1>7, <1>8, <1>9 DEF CommentInv

\* A comment of somebody else comes last.
LEMMA SomeoneCommentsKeeps ==
  ASSUME CommentInv, SomeoneComments
  PROVE  CommentInv'
<1> DEFINE n == Len(comments) + 1
<1>0. /\ UNCHANGED <<op, stored, disturbed>> /\ posted' = posted + 1 /\ posted < MaxComments
      /\ comments' = Append(comments, [id |-> posted + 1, body |-> Foreign])
      /\ CommentTypeOK /\ IdsAreUnique
  BY DEF SomeoneComments, CommentInv
<1>1. Foreign \in Foreign..Target
  BY CommentTypes, <1>0 DEF Foreign
<1>2. /\ comments' \in Seq(Comment) /\ DOMAIN comments' = 1..n
      /\ \A j \in DOMAIN comments : comments'[j] = comments[j]
      /\ comments'[n].id = posted + 1
      /\ Marked' = Marked
      /\ posted' \in 0..MaxComments /\ Len(comments') <= MaxComments
      /\ IdsAreUnique'
  BY <1>0, <1>1, PostOne
<1>3. CommentTypeOK'
  BY <1>0, <1>2 DEF CommentTypeOK, Comment
<1>4. FoundIsMarked'
  <2> SUFFICES ASSUME NEW v \in Workers, op[v].pc = "edit"
               PROVE  /\ op[v].found <= posted'
                      /\ \A i \in DOMAIN comments' : comments'[i].id = op[v].found => i \in Marked'
    BY <1>0 DEF FoundIsMarked
  <2>1. op[v].found <= posted /\ op[v].found \in Nat /\ posted \in Nat
    BY <1>0, CommentTypes DEF FoundIsMarked, CommentInv, Operations
  <2>2. \A i \in DOMAIN comments' : i \in DOMAIN comments \/ i = n
    BY <1>0, <1>2, CommentTypes
  <2> QED
    BY <1>0, <1>2, <2>1, <2>2 DEF CommentInv, FoundIsMarked
<1>5. disturbed' \intersect {"overlap", "shift"} = {} => Alone'
  BY <1>0, <1>2 DEF CommentInv, Alone, OneActive, OneMarked, PassedUnmarked
<1>6. disturbed' = {} => StoredIsMarked' /\ StatesFollow'
  BY <1>0, <1>2 DEF CommentInv, StoredIsMarked, StatesFollow, Marked
<1> QED
  BY <1>2, <1>3, <1>4, <1>5, <1>6 DEF CommentInv

\* A deletion that a listing is past is a disturbance, one of the comment with
\* the marker as well.
LEMMA SomeoneDeletesKeeps ==
  ASSUME CommentInv, NEW i \in DOMAIN comments, SomeoneDeletes(i)
  PROVE  CommentInv'
<1>0. /\ UNCHANGED <<posted, op, stored>> /\ CommentTypeOK /\ IdsAreUnique
      /\ comments' = [j \in 1..(Len(comments) - 1) |->
                        IF j < i THEN comments[j] ELSE comments[j + 1]]
      /\ disturbed \subseteq disturbed' /\ disturbed' \subseteq {"overlap", "shift", "edit"}
      /\ Shifts(i) => "shift" \in disturbed'
      /\ i \in Marked => "edit" \in disturbed'
  BY DEF SomeoneDeletes, CommentInv, CommentTypeOK, Marked
<1>1. /\ comments' \in Seq(Comment) /\ Len(comments') <= MaxComments
      /\ \A j \in DOMAIN comments' :
           \E k \in DOMAIN comments : /\ k = IF j < i THEN j ELSE j + 1
                                      /\ comments'[j] = comments[k]
      /\ IdsAreUnique'
  BY <1>0, DeleteOne
<1>2. CommentTypeOK'
  BY <1>0, <1>1 DEF CommentTypeOK, Comment
<1>3. \A j \in Marked' : \E k \in Marked :
        k = (IF j < i THEN j ELSE j + 1) /\ comments'[j] = comments[k]
  BY <1>1 DEF Marked
<1>4. FoundIsMarked'
  BY <1>0, <1>1 DEF CommentInv, FoundIsMarked, Marked
<1>5. ASSUME disturbed' \intersect {"overlap", "shift"} = {} PROVE Alone'
  <2>1. Alone /\ ~Shifts(i)
    BY <1>0, <1>5 DEF CommentInv
  <2>2. Marked' \subseteq Nat /\ Marked \subseteq Nat /\ i \in Nat
    BY <1>0, <1>1, CommentTypes DEF Marked
  <2>3. OneMarked'
    BY <1>3, <2>1, <2>2 DEF Alone, OneMarked
  <2>4. \A w \in Workers : op[w].pc = "create" => Marked' = {}
    BY <1>3, <2>1 DEF Alone, PassedUnmarked
  <2>5. ASSUME NEW w \in Workers, op[w].pc \in {"fetch", "find"}, NEW j \in Marked'
        PROVE  j > (op[w].page - 1) * PageSize
    <3> DEFINE past == (op[w].page - 1) * PageSize
    <3>1. past \in Nat
      <4>1. op[w].page - 1 \in Nat /\ PageSize \in Nat
        BY <1>0, CommentTypes DEF Operations
      <4> QED
        BY <4>1
    <3>2. i > past
      BY <2>1, <2>2, <2>5, <3>1 DEF Shifts
    <3>3. \A k \in Marked : k > past
      BY <2>1, <2>5 DEF Alone, PassedUnmarked
    <3> QED
      BY <1>3, <2>2, <3>1, <3>2, <3>3
  <2> QED
    BY <1>0, <2>1, <2>3, <2>4, <2>5 DEF Alone, OneActive, PassedUnmarked
<1>6. ASSUME disturbed' = {} PROVE StoredIsMarked' /\ StatesFollow'
  <2>1. StoredIsMarked /\ StatesFollow /\ i \notin Marked
    BY <1>0, <1>6 DEF CommentInv
  <2>2. \A j \in Marked' : comments'[j].body = stored
    BY <1>3, <2>1 DEF StoredIsMarked
  <2>3. ASSUME NEW k \in Marked PROVE Marked' # {}
    <3> DEFINE j == IF k < i THEN k ELSE k - 1
    <3>1. k \in 1..Len(comments) /\ i \in 1..Len(comments) /\ k # i /\ Len(comments) \in Nat
      BY <1>0, <2>1, CommentTypes DEF Marked
    <3>2. j \in DOMAIN comments' /\ comments'[j] = comments[k]
      BY <1>0, <3>1
    <3> QED
      BY <3>2 DEF Marked
  <2> QED
    BY <1>0, <2>1, <2>2, <2>3 DEF StoredIsMarked, StatesFollow
<1> QED
  BY <1>1, <1>2, <1>4, <1>5, <1>6 DEF CommentInv

LEMMA SomeoneEditsKeeps ==
  ASSUME CommentInv, NEW i \in DOMAIN comments, SomeoneEdits(i)
  PROVE  CommentInv'
<1>0. /\ UNCHANGED <<posted, op, stored>> /\ CommentTypeOK /\ IdsAreUnique
      /\ comments' = [comments EXCEPT ![i].body = 0]
      /\ disturbed' = disturbed \union {"edit"} /\ i \in Marked
  BY DEF SomeoneEdits, CommentInv, Marked, Stateless, Foreign
<1>1. 0 \in 0..Target
  BY <1>0, CommentTypes
<1>2. /\ comments' \in Seq(Comment) /\ Len(comments') = Len(comments)
      /\ DOMAIN comments' = DOMAIN comments
      /\ \A j \in DOMAIN comments : comments'[j].id = comments[j].id
      /\ Marked' = Marked
  BY <1>0, <1>1, WriteOne
<1>3. CommentTypeOK'
  BY <1>0, <1>2 DEF CommentTypeOK, Comment
<1>4. IdsAreUnique' /\ FoundIsMarked'
  BY <1>0, <1>2 DEF CommentInv, IdsAreUnique, FoundIsMarked
<1>5. disturbed' \intersect {"overlap", "shift"} = {} => Alone'
  BY <1>0, <1>2 DEF CommentInv, Alone, OneActive, OneMarked, PassedUnmarked
<1> QED
  BY <1>0, <1>3, <1>4, <1>5 DEF CommentInv

LEMMA StepComment == CommentInv /\ [Next]_vars => CommentInv'
<1> SUFFICES ASSUME CommentInv, [Next]_vars PROVE CommentInv'
  OBVIOUS
<1> USE DEF Urls
<1>1. CASE UNCHANGED commentVars
  BY <1>1, CommentIdles
<1>2. ASSUME NEW u \in Workers, Run(u) PROVE CommentInv'
  <2>1. CASE Start(u) \/ StartFails(u) \/ GetClient(u) \/ GetFailed(u)
    BY <1>1, <2>1 DEF Start, StartFails, GetClient, GetFailed
  <2>2. CASE Reconcile(u)
    BY <2>2, FetchCallKeeps DEF Reconcile
  <2>3. CASE Work(u)
    BY <2>3, FetchPageKeeps, FindPageKeeps, EndKeeps, EditKeeps, CreateKeeps DEF Work
  <2>4. CASE NextState(u)
    BY <2>4, CommitCallKeeps DEF NextState
  <2>5. CASE Returns(u)
    BY <2>5, EndKeeps DEF Returns
  <2> QED
    BY <1>2, <2>1, <2>2, <2>3, <2>4, <2>5 DEF Run
<1>3. ASSUME NEW u \in Workers, WorkFails(u) PROVE CommentInv'
  BY <1>3, EndKeeps, EditKeeps, CreateKeeps DEF WorkFails
<1>4. CASE People
  BY <1>4, SomeoneCommentsKeeps, SomeoneDeletesKeeps, SomeoneEditsKeeps DEF People
<1>5. ASSUME NEW u \in Workers, Queue(u) PROVE CommentInv'
  BY <1>1, <1>5 DEF Queue
<1> QED
  BY <1>1, <1>2, <1>3, <1>4, <1>5 DEF Next, vars, ClearCache

LEMMA CommentInvHolds == Spec => []CommentInv
<1>1. Init => CommentInv
  BY CommentStarts DEF Init
<1> QED
  BY <1>1, StepComment, PTL DEF Spec

\* OneComment: failed calls, retries and the comments of others never make a
\* second comment with the marker.
THEOREM CommentIsOne == Spec => []OneComment
<1>1. CommentInv => OneComment
  <2> SUFFICES ASSUME CommentInv, Alone PROVE Cardinality(Marked) <= 1
    BY DEF CommentInv, OneComment, Marked
  <2>1. Marked = {} \/ \E i \in Marked : Marked = {i}
    BY DEF Alone, OneMarked
  <2> QED
    BY <2>1, FS_EmptySet, FS_Singleton
<1> QED
  BY <1>1, CommentInvHolds, PTL

\* FetchedIsCommitted: what is fetched is what was committed last, however
\* many pages come before the comment and whichever calls failed.
THEOREM FetchedStateIsCommitted == Spec => []FetchedIsCommitted
<1>1. CommentInv => FetchedIsCommitted
  BY DEF CommentInv, FetchedIsCommitted, StatesFollow
<1> QED
  BY <1>1, CommentInvHolds, PTL

\* OthersKept, for one step: a comment without the marker keeps its body.
LEMMA StepOthers ==
  ASSUME CommentInv, [Next]_vars, NEW i \in DOMAIN comments, NEW j \in DOMAIN comments',
         comments[i].id = comments'[j].id, comments[i].body = Foreign
  PROVE  comments'[j] = comments[i]
<1> USE DEF Urls
<1>0. CommentTypeOK /\ IdsAreUnique
  BY DEF CommentInv
<1>1. CASE comments' = comments
  BY <1>0, <1>1 DEF IdsAreUnique
<1>2. ASSUME NEW w \in Workers, NEW answer \in {"committed", "failed"}, EditComment(w, answer)
      PROVE  comments'[j] = comments[i]
  <2>1. PICK k \in At(op[w].found) : TRUE
    BY <1>2 DEF EditComment
  <2>2. At(op[w].found) = {k} /\ k \in Marked
    BY <1>0, <1>2, <2>1 DEF EditComment, CommentInv, IdsAreUnique, FoundIsMarked, At
  <2>3. Max(At(op[w].found)) = k
    BY <1>0, <2>2, CommentTypes DEF Max, Marked
  <2>4. k # i /\ comments' = [comments EXCEPT ![k].body = op[w].state]
    BY <1>2, <2>2, <2>3 DEF EditComment, Marked
  <2>5. op[w].state \in 0..Target
    BY <1>0, CommentTypes DEF Operations
  <2>6. DOMAIN comments' = DOMAIN comments /\ comments'[i] = comments[i]
        /\ \A n \in DOMAIN comments : comments'[n].id = comments[n].id
    BY <1>0, <2>2, <2>4, <2>5, WriteOne
  <2> QED
    BY <1>0, <2>6 DEF IdsAreUnique
<1>3. ASSUME NEW w \in Workers, NEW b \in Foreign..Target, posted < MaxComments,
             posted' = posted + 1,
             comments' = Append(comments, [id |-> posted + 1, body |-> b])
      PROVE  comments'[j] = comments[i]
  <2>1. /\ DOMAIN comments' = 1..(Len(comments) + 1)
        /\ \A n \in DOMAIN comments : comments'[n] = comments[n]
        /\ comments'[Len(comments) + 1].id = posted + 1
    BY <1>0, <1>3, PostOne
  <2>2. comments[i].id <= posted /\ comments[i].id \in Nat /\ posted \in Nat
    BY <1>0, CommentTypes DEF IdsAreUnique, Comment
  <2>3. j \in DOMAIN comments
    BY <1>0, <2>1, <2>2, CommentTypes
  <2> QED
    BY <1>0, <2>1, <2>3 DEF IdsAreUnique
<1>4. ASSUME NEW k \in DOMAIN comments, SomeoneDeletes(k) PROVE comments'[j] = comments[i]
  <2>1. \E n \in DOMAIN comments : comments'[j] = comments[n]
    BY <1>0, <1>4, DeleteOne DEF SomeoneDeletes
  <2> QED
    BY <1>0, <2>1 DEF IdsAreUnique
<1>5. ASSUME NEW k \in DOMAIN comments, SomeoneEdits(k) PROVE comments'[j] = comments[i]
  <2>1. k \in Marked /\ k # i /\ 0 \in 0..Target /\ comments' = [comments EXCEPT ![k].body = 0]
    BY <1>0, <1>5, CommentTypes DEF SomeoneEdits, Marked, Stateless, Foreign
  <2>2. DOMAIN comments' = DOMAIN comments /\ comments'[i] = comments[i]
        /\ \A n \in DOMAIN comments : comments'[n].id = comments[n].id
    BY <1>0, <2>1, WriteOne
  <2> QED
    BY <1>0, <2>2 DEF IdsAreUnique
<1>6. ASSUME NEW w \in Workers, NEW answer \in {"committed", "failed"}, CreateComment(w, answer)
      PROVE  comments'[j] = comments[i]
  <2>1. op[w].state \in Foreign..Target
    BY <1>0, CommentTypes DEF Operations, Foreign
  <2> QED
    BY <1>3, <1>6, <2>1 DEF CreateComment
<1>7. ASSUME NEW u \in Workers, Run(u) PROVE comments'[j] = comments[i]
  <2>1. CASE Start(u) \/ StartFails(u) \/ GetClient(u) \/ GetFailed(u)
    BY <1>1, <2>1 DEF Start, StartFails, GetClient, GetFailed, commentVars
  <2>2. CASE Reconcile(u) \/ NextState(u) \/ Returns(u)
    BY <1>1, <2>2 DEF Reconcile, FetchCall, NextState, CommitCall, Returns, Leave
  <2>3. CASE Work(u)
    BY <1>1, <1>2, <1>6, <2>3 DEF Work, FetchPage, FindPage, EditMisses
  <2> QED
    BY <1>7, <2>1, <2>2, <2>3 DEF Run
<1>8. ASSUME NEW u \in Workers, WorkFails(u) PROVE comments'[j] = comments[i]
  BY <1>1, <1>2, <1>6, <1>8 DEF WorkFails, CallFails
<1>9. CASE People
  <2>1. CASE SomeoneComments
    <3>1. Foreign \in Foreign..Target
      BY <1>0, CommentTypes DEF Foreign
    <3>2. /\ DOMAIN comments' = 1..(Len(comments) + 1)
          /\ \A n \in DOMAIN comments : comments'[n] = comments[n]
          /\ comments'[Len(comments) + 1].id = posted + 1
      BY <1>0, <2>1, <3>1, PostOne DEF SomeoneComments
    <3>3. comments[i].id <= posted /\ comments[i].id \in Nat /\ posted \in Nat
      BY <1>0, CommentTypes DEF IdsAreUnique, Comment
    <3>4. j \in DOMAIN comments
      BY <1>0, <3>2, <3>3, CommentTypes
    <3> QED
      BY <1>0, <3>2, <3>4 DEF IdsAreUnique
  <2> QED
    BY <1>4, <1>5, <1>9, <2>1 DEF People
<1>10. CASE \/ UNCHANGED vars \/ ClearCache \/ \E u \in Workers : Queue(u)
  BY <1>1, <1>10 DEF vars, commentVars, ClearCache, Queue
<1> QED
  BY <1>7, <1>8, <1>9, <1>10 DEF Next

\* OthersKept: no edit reaches a comment of somebody else.
THEOREM OthersCommentsAreKept == Spec => OthersKept
<1>1. CommentInv /\ [Next]_vars =>
        [\A i \in DOMAIN comments, j \in DOMAIN comments' :
           comments[i].id = comments'[j].id /\ comments[i].body = Foreign =>
             comments'[j] = comments[i]]_commentVars
  BY StepOthers
<1> QED
  BY <1>1, CommentInvHolds, PTL DEF Spec, OthersKept

-----------------------------------------------------------------------------
(* The keys. *)

SpentTyped ==
  spent \in [queues : 0..MaxQueues, comments : 0..MaxForeign,
             meddling : 0..MaxMeddling, failures : 0..MaxFailures]
KeysTyped ==
  /\ key \in [Urls -> {"idle", "queued", "client", "state", "dead"}]
  /\ attempts \in [Urls -> Nat]
  /\ settled \subseteq Urls

LEMMA TypeParts == TypeOK <=> CommentTypeOK /\ CacheTypeOK /\ KeysTyped /\ SpentTyped
BY DEF TypeOK, KeysTyped, SpentTyped

LEMMA SpendTypes ==
  ASSUME SpentTyped
  PROVE  /\ Spend("queues", MaxQueues) => SpentTyped'
         /\ Spend("comments", MaxForeign) => SpentTyped'
         /\ Spend("meddling", MaxMeddling) => SpentTyped'
         /\ Spend("failures", MaxFailures) => SpentTyped'
         /\ UNCHANGED spent => SpentTyped'
BY ReconcilerAssumption DEF SpentTyped, Spend

LEMMA ReturnedTypes ==
  ASSUME KeysTyped, NEW u \in Urls, NEW result, NEW tries \in Nat, Returned(u, result, tries)
  PROVE  KeysTyped' /\ spent' = spent
BY DEF KeysTyped, Returned

\* A key that settled, and everything is committed.
StoredIsTarget == settled # {} /\ disturbed = {} => stored = Target

LEMMA StepTypes == KeysTyped /\ SpentTyped /\ [Next]_vars => KeysTyped' /\ SpentTyped'
<1> SUFFICES ASSUME KeysTyped, SpentTyped, [Next]_vars PROVE KeysTyped' /\ SpentTyped'
  OBVIOUS
<1>1. CASE UNCHANGED <<key, attempts, settled>>
  <2>1. KeysTyped'
    BY <1>1 DEF KeysTyped
  <2>2. SpentTyped'
    BY <1>1, SpendTypes DEF Next, vars, Run, Queue, Start, StartFails, GetClient, GetFailed,
       Reconcile, Work, NextState, Returns, WorkFails, ClearCache, People, Returned
  <2> QED
    BY <2>1, <2>2
<1>2. ASSUME NEW u \in Urls, Queue(u) PROVE KeysTyped' /\ SpentTyped'
  BY <1>2, SpendTypes DEF Queue, KeysTyped
<1>3. ASSUME NEW u \in Urls, Run(u) PROVE KeysTyped' /\ SpentTyped'
  <2>0. attempts[u] \in Nat /\ attempts[u] + 1 \in Nat
    BY DEF KeysTyped
  <2>1. CASE Start(u)
    BY <2>0, <2>1, SpendTypes DEF Start, KeysTyped
  <2>2. CASE StartFails(u)
    BY <2>0, <2>2, SpendTypes, ReturnedTypes DEF StartFails
  <2>3. CASE GetFailed(u)
    BY <2>0, <2>3, SpendTypes, ReturnedTypes DEF GetFailed
  <2>4. CASE Reconcile(u)
    BY <2>4, SpendTypes DEF Reconcile, KeysTyped
  <2>5. CASE Returns(u)
    BY <2>0, <2>5, SpendTypes, ReturnedTypes DEF Returns
  <2>6. CASE GetClient(u) \/ Work(u) \/ NextState(u)
    BY <1>1, <2>6 DEF GetClient, Work, NextState
  <2> QED
    BY <1>3, <2>1, <2>2, <2>3, <2>4, <2>5, <2>6 DEF Run
<1>4. CASE \/ ClearCache \/ People \/ UNCHANGED vars \/ \E u \in Urls : WorkFails(u)
  BY <1>1, <1>4 DEF ClearCache, People, vars, WorkFails
<1> QED
  BY <1>2, <1>3, <1>4 DEF Next

LEMMA StepStored == CommentInv /\ StoredIsTarget /\ [Next]_vars => StoredIsTarget'
<1> SUFFICES ASSUME CommentInv, StoredIsTarget, [Next]_vars, settled' # {}, disturbed' = {}
             PROVE  stored' = Target
  BY DEF StoredIsTarget
<1> USE DEF Urls
<1>1. CASE settled' \subseteq settled /\ UNCHANGED <<stored, disturbed>>
  BY <1>1 DEF StoredIsTarget
<1>2. ASSUME NEW w \in Workers, op[w].pc \in {"edit", "create"}, UNCHANGED <<settled, disturbed>>
      PROVE  FALSE
  <2>1. op[w].state = stored + 1 /\ op[w].state \in 0..Target /\ stored = Target
    BY <1>2, CommentTypes DEF CommentInv, StatesFollow, StoredIsTarget, Operations
  <2> QED
    BY <2>1, CommentAssumption
<1>3. ASSUME NEW u \in Workers, Run(u) PROVE stored' = Target
  <2>1. CASE Start(u) \/ GetClient(u)
    BY <1>1, <2>1 DEF Start, GetClient, commentVars
  <2>2. CASE StartFails(u) \/ GetFailed(u)
    BY <1>1, <2>2 DEF StartFails, GetFailed, Returned, commentVars
  <2>3. CASE Reconcile(u)
    BY <1>1, <2>3 DEF Reconcile, FetchCall
  <2>4. CASE Work(u)
    BY <1>1, <1>2, <2>4 DEF Work, FetchPage, FindPage, EditMisses, EditComment, CreateComment
  <2>5. CASE NextState(u)
    BY <1>1, <2>5 DEF NextState, CommitCall
  <2>6. CASE Returns(u)
    <3>1. UNCHANGED <<stored, disturbed>>
      BY <2>6 DEF Returns, Leave
    <3>2. CASE op[u].pc \in {"fetched", "committed"} /\ op[u].state = Target
      BY <3>1, <3>2 DEF CommentInv, StatesFollow
    <3>3. CASE settled' = settled
      BY <1>1, <3>1, <3>3
    <3> QED
      BY <2>6, <3>2, <3>3 DEF Returns, Returned
  <2> QED
    BY <1>3, <2>1, <2>2, <2>3, <2>4, <2>5, <2>6 DEF Run
<1>4. ASSUME NEW u \in Workers, WorkFails(u) PROVE stored' = Target
  BY <1>1, <1>2, <1>4 DEF WorkFails, CallFails, EditComment, CreateComment
<1>5. CASE People
  BY <1>1, <1>5 DEF People, SomeoneComments, SomeoneDeletes, SomeoneEdits
<1>6. CASE \/ UNCHANGED vars \/ ClearCache \/ \E u \in Workers : Queue(u)
  BY <1>1, <1>6 DEF vars, commentVars, ClearCache, Queue
<1> QED
  BY <1>3, <1>4, <1>5, <1>6 DEF Next

\* TypeOK: in particular no listing goes on past the last page.
THEOREM ReconcilerIsTyped == Spec => []TypeOK
<1> DEFINE Inv == CInv /\ CommentInv /\ KeysTyped /\ SpentTyped
<1>1. Init => Inv
  <2>1. Init => CInv /\ CommentInv
    BY CacheStarts, CommentStarts DEF Init
  <2>2. Init => KeysTyped /\ SpentTyped
    BY ReconcilerAssumption DEF Init, KeysTyped, SpentTyped
  <2> QED
    BY <2>1, <2>2
<1>2. Inv /\ [Next]_vars => Inv'
  BY StepCInv, StepComment, StepTypes
<1>3. Inv => TypeOK
  BY TypeParts DEF CInv, CommentInv
<1> QED
  BY <1>1, <1>2, <1>3, PTL DEF Spec

\* SettledIsStored: a key whose callback returned nil left its last state in
\* the comment, whichever calls to GitHub failed before.
THEOREM SettledStateIsStored == Spec => []SettledIsStored
<1>1. Init => StoredIsTarget
  BY DEF Init, StoredIsTarget
<1>2. CommentInv /\ StoredIsTarget => SettledIsStored
  BY CommentAssumption DEF CommentInv, StoredIsTarget, SettledIsStored, StoredIsMarked, Marked
<1> QED
  BY <1>1, <1>2, StepStored, CommentInvHolds, PTL DEF Spec
=============================================================================
