----------------------------- MODULE SnapIdPool -----------------------------
(***************************************************************************)
(* CSnapIdPool, which gives the entities of the worlds their snapshot ids: *)
(* one array of ids that two lists are threaded through, a stack of the    *)
(* free ones and a queue of those that were given back and rest, so that   *)
(* clients do not take a new item for one they still show.                 *)
(*                                                                         *)
(* A call of NewId or TimeoutIds is a step for its beginning, one for each *)
(* round of its loop, and one for its end; the calls are those of the one  *)
(* game thread, so that nothing else happens within one.  Time is in units *)
(* of which the rest of five seconds has Rest, and m_Timeout is an int     *)
(* that holds the values below Half; time itself is an int64.              *)
(***************************************************************************)
EXTENDS Integers, Sequences, FiniteSets

CONSTANTS
  MaxIds,    \* MAX_IDS
  Rest,      \* time_freq() * 5
  Half,      \* values of an int, without the negative ones
  EndOfTime  \* bound: the model's time stops here

ASSUME PoolAssumption ==
  MaxIds \in Nat \ {0} /\ Rest \in Nat /\ Half \in Nat \ {0} /\ EndOfTime \in Nat

Ids == 0 .. MaxIds - 1
None == -1
Never == -1 - Rest

VARIABLES
  m_Next, m_State, m_Timeout,          \* fields of m_aIds
  m_FirstFree, m_FirstTimed, m_LastTimed,
  m_Usage, m_InUsage,
  now,                                 \* time_get()
  call,                                \* the call that goes on
  freeList, timedList,  \* auxiliary: the ids of the two lists
  freedAt               \* auxiliary: when an id began the rest it is in or had

heads == <<m_FirstFree, m_FirstTimed, m_LastTimed>>
auxVars == <<freeList, timedList, freedAt>>
vars == <<m_Next, m_State, m_Timeout, heads, m_Usage, m_InUsage, now, call, auxVars>>

States == {"ID_FREE", "ID_ALLOCATED", "ID_TIMED"}

Init ==
  /\ m_Next = [id \in Ids |-> IF id = MaxIds - 1 THEN None ELSE id + 1]
  /\ m_State = [id \in Ids |-> "ID_FREE"] /\ m_Timeout = [id \in Ids |-> 0]
  /\ m_FirstFree = 0 /\ m_FirstTimed = None /\ m_LastTimed = None
  /\ m_Usage = 0 /\ m_InUsage = 0
  /\ now = 0 /\ call = "none"
  /\ freeList = [i \in 1 .. MaxIds |-> i - 1] /\ timedList = <<>>
  /\ freedAt = [id \in Ids |-> Never]

AsIntUnsigned(t) == t % (2 * Half)   \* mutant: no value is negative

(* What an int keeps of a time.                                            *)
AsInt(t) ==
  LET r == t % (2 * Half) IN IF r < Half THEN r ELSE r - 2 * Half

RemoveLastTimeout ==   \* mutant: m_LastTimed is not reset
  LET id == m_FirstTimed IN
  /\ m_Next' = [m_Next EXCEPT ![id] = m_FirstFree]
  /\ m_State' = [m_State EXCEPT ![id] = "ID_FREE"]
  /\ m_FirstFree' = id
  /\ m_FirstTimed' = m_Next[id]
  /\ m_LastTimed' = m_LastTimed
  /\ m_Usage' = m_Usage - 1
  /\ freeList' = <<id>> \o freeList /\ timedList' = Tail(timedList)
  /\ UNCHANGED <<m_Timeout, m_InUsage, now>>

(* The first id of the timed list goes to the head of the free list.       *)
RemoveFirstTimeout ==
  LET id == m_FirstTimed IN
  /\ m_Next' = [m_Next EXCEPT ![id] = m_FirstFree]
  /\ m_State' = [m_State EXCEPT ![id] = "ID_FREE"]
  /\ m_FirstFree' = id
  /\ m_FirstTimed' = m_Next[id]
  /\ m_LastTimed' = IF m_Next[id] = None THEN None ELSE m_LastTimed
  /\ m_Usage' = m_Usage - 1
  /\ freeList' = <<id>> \o freeList /\ timedList' = Tail(timedList)
  /\ UNCHANGED <<m_Timeout, m_InUsage, now>>

ExpiredAnyway ==   \* mutant: the time is not looked at
  m_FirstTimed # None

ExpiredLate ==   \* mutant: one unit too late
  m_FirstTimed # None /\ m_Timeout[m_FirstTimed] < now - 1

Expired == m_FirstTimed # None /\ m_Timeout[m_FirstTimed] < now

Begin(f) ==
  /\ call = "none" /\ call' = f
  /\ UNCHANGED <<m_Next, m_State, m_Timeout, heads, m_Usage, m_InUsage, now, auxVars>>

NewIdRound ==
  /\ call = "NewId" /\ Expired /\ RemoveFirstTimeout
  /\ UNCHANGED <<call, freedAt>>

(* The first free id is given.                                             *)
Give ==
  LET id == m_FirstFree IN
  /\ id # None
  /\ m_FirstFree' = m_Next[id]
  /\ m_State' = [m_State EXCEPT ![id] = "ID_ALLOCATED"]
  /\ m_Usage' = m_Usage + 1 /\ m_InUsage' = m_InUsage + 1
  /\ freeList' = Tail(freeList)
  /\ UNCHANGED <<m_Next, m_Timeout, m_FirstTimed, m_LastTimed, timedList, freedAt>>

(* With no free id the caller gets -1.                                     *)
Refuse ==
  /\ m_FirstFree = None
  /\ UNCHANGED <<m_Next, m_State, m_Timeout, heads, m_Usage, m_InUsage, auxVars>>

NewIdReturn ==
  /\ call = "NewId" /\ ~Expired /\ call' = "none"
  /\ Give \/ Refuse
  /\ UNCHANGED now

(* The end of a map: every id may be given again.                          *)
TimeoutIdsRound ==
  /\ call = "TimeoutIds" /\ m_FirstTimed # None /\ RemoveFirstTimeout
  /\ freedAt' = [freedAt EXCEPT ![m_FirstTimed] = Never]
  /\ UNCHANGED call

TimeoutIdsReturn ==
  /\ call = "TimeoutIds" /\ m_FirstTimed = None /\ call' = "none"
  /\ UNCHANGED <<m_Next, m_State, m_Timeout, heads, m_Usage, m_InUsage, now, auxVars>>

FreeIdUsage(id) ==   \* mutant: m_Usage is counted down already
  /\ call = "none" /\ m_State[id] = "ID_ALLOCATED"
  /\ m_InUsage' = m_InUsage - 1 /\ m_Usage' = m_Usage - 1
  /\ m_State' = [m_State EXCEPT ![id] = "ID_TIMED"]
  /\ m_Timeout' = [m_Timeout EXCEPT ![id] = AsInt(now + Rest)]
  /\ m_Next' = IF m_LastTimed = None THEN [m_Next EXCEPT ![id] = None]
               ELSE [m_Next EXCEPT ![id] = None, ![m_LastTimed] = id]
  /\ m_FirstTimed' = IF m_LastTimed = None THEN id ELSE m_FirstTimed
  /\ m_LastTimed' = id
  /\ timedList' = Append(timedList, id) /\ freedAt' = [freedAt EXCEPT ![id] = now]
  /\ UNCHANGED <<m_FirstFree, now, call, freeList>>

FreeIdFirst(id) ==   \* mutant: the id goes to the head of the timed list
  /\ call = "none" /\ m_State[id] = "ID_ALLOCATED"
  /\ m_InUsage' = m_InUsage - 1
  /\ m_State' = [m_State EXCEPT ![id] = "ID_TIMED"]
  /\ m_Timeout' = [m_Timeout EXCEPT ![id] = AsInt(now + Rest)]
  /\ m_Next' = [m_Next EXCEPT ![id] = m_FirstTimed]
  /\ m_FirstTimed' = id
  /\ m_LastTimed' = IF m_LastTimed = None THEN id ELSE m_LastTimed
  /\ timedList' = <<id>> \o timedList /\ freedAt' = [freedAt EXCEPT ![id] = now]
  /\ UNCHANGED <<m_FirstFree, m_Usage, now, call, freeList>>

(* An entity gives its id back: it goes to the end of the timed list.      *)
FreeId(id) ==
  /\ call = "none" /\ m_State[id] = "ID_ALLOCATED"
  /\ m_InUsage' = m_InUsage - 1
  /\ m_State' = [m_State EXCEPT ![id] = "ID_TIMED"]
  /\ m_Timeout' = [m_Timeout EXCEPT ![id] = AsInt(now + Rest)]
  /\ m_Next' = IF m_LastTimed = None THEN [m_Next EXCEPT ![id] = None]
               ELSE [m_Next EXCEPT ![id] = None, ![m_LastTimed] = id]
  /\ m_FirstTimed' = IF m_LastTimed = None THEN id ELSE m_FirstTimed
  /\ m_LastTimed' = id
  /\ timedList' = Append(timedList, id) /\ freedAt' = [freedAt EXCEPT ![id] = now]
  /\ UNCHANGED <<m_FirstFree, m_Usage, now, call, freeList>>

Tick ==
  /\ call = "none" /\ now < EndOfTime /\ now' = now + 1
  /\ UNCHANGED <<m_Next, m_State, m_Timeout, heads, m_Usage, m_InUsage, call, auxVars>>

Next ==
  \/ Begin("NewId") \/ NewIdRound \/ NewIdReturn
  \/ Begin("TimeoutIds") \/ TimeoutIdsRound \/ TimeoutIdsReturn
  \/ \E id \in Ids : FreeId(id)
  \/ Tick

Spec == Init /\ [][Next]_vars

-----------------------------------------------------------------------------
(* Properties                                                              *)

InState(st) == {id \in Ids : m_State[id] = st}

(* Every field keeps its type; m_Next and the heads never leave the array. *)
TypeOK ==
  /\ m_Next \in [Ids -> Ids \cup {None}] /\ m_State \in [Ids -> States]
  /\ m_Timeout \in [Ids -> -Half .. Half - 1]
  /\ m_FirstFree \in Ids \cup {None}
  /\ m_FirstTimed \in Ids \cup {None} /\ m_LastTimed \in Ids \cup {None}
  /\ m_Usage \in Nat /\ m_InUsage \in Nat
  /\ now \in Nat /\ call \in {"none", "NewId", "TimeoutIds"}
  /\ freeList \in Seq(Ids) /\ timedList \in Seq(Ids)
  /\ freedAt \in [Ids -> Nat \cup {Never}]

(* The ids of list are exactly those in S, each once, and next leads from  *)
(* first through all of them.                                              *)
Threaded(list, first, S, next) ==
  /\ S = {list[i] : i \in 1 .. Len(list)}
  /\ \A i, j \in 1 .. Len(list) : list[i] = list[j] => i = j
  /\ first = IF list = <<>> THEN None ELSE list[1]
  /\ \A i \in 1 .. Len(list) :
       next[list[i]] = IF i = Len(list) THEN None ELSE list[i + 1]

(***************************************************************************)
(* Both lists are whole through every round of every call: no id is lost   *)
(* from both, none is in two, no list has a loop, and the queue's end is   *)
(* where the next id will be put.                                          *)
(***************************************************************************)
ListsWhole ==
  /\ Threaded(freeList, m_FirstFree, InState("ID_FREE"), m_Next)
  /\ Threaded(timedList, m_FirstTimed, InState("ID_TIMED"), m_Next)
  /\ m_LastTimed = IF timedList = <<>> THEN None ELSE timedList[Len(timedList)]

(* The two counters tell the ids that cannot be given and those in use.    *)
UsageCounted ==
  /\ m_InUsage = Cardinality(InState("ID_ALLOCATED"))
  /\ m_Usage = m_InUsage + Len(timedList)

(***************************************************************************)
(* An id that was given back is not given again before its rest is over,   *)
(* as long as the end of the rest fits into an int.  (Later in the host's  *)
(* life the int is always behind the time, and there is no rest at all.)   *)
(***************************************************************************)
RestKept ==
  [][\A id \in Ids :
       m_State[id] = "ID_FREE" /\ m_State'[id] = "ID_ALLOCATED"
         => freedAt[id] + Rest < now \/ freedAt[id] + Rest >= Half]_vars

(* The pool does what IdPool promises: lists of ids threaded through an    *)
(* array are as good as two sets and a queue.                              *)
Pool == INSTANCE IdPool WITH
  free <- InState("ID_FREE"), used <- InState("ID_ALLOCATED"), resting <- timedList

PoolSpec == Pool!Spec

(***************************************************************************)
(* A caller is refused only when every id is in use or still rests, though *)
(* NewId looks no further than the first of the timed list that rests, and *)
(* by its int.                                                             *)
(***************************************************************************)
RefusedRightly ==
  [][call = "NewId" /\ call' = "none" /\ UNCHANGED m_State
       => \A id \in Ids : \/ m_State[id] = "ID_ALLOCATED"
                          \/ m_State[id] = "ID_TIMED" /\ freedAt[id] + Rest >= now]_vars

=============================================================================
