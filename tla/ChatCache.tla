------------------------------ MODULE ChatCache ------------------------------
(***************************************************************************)
(* Answers of the analytics chat about one process, kept in memory under   *)
(* what was asked, and the saving of versions, which evicts them. A chat   *)
(* reads its rows first and stores its answer when the stream of the       *)
(* sidecar ends, minutes later.                                            *)
(***************************************************************************)
EXTENDS Naturals, SequencesExt

CONSTANTS
  Functions, Questions,
  Compared,    \* values of compareTo, None among them
  None,        \* also: a chat about the whole process
  Chats, Savers,
  MaxEntries,  \* MAX_ENTRIES of the cache
  MaxSaves     \* bound on the saved versions

VARIABLES
  cache,    \* the Map, in insertion order
  versions, \* per function, the version numbers of its SavedVersion rows
  saves,    \* versions saved so far
  chat,     \* per chat, the stream under way, or None
  saver     \* per saver, its VersionsService.create

vars == <<cache, versions, saves, chat, saver>>

Scopes == Functions \cup {None}
Numbers == 1..MaxSaves

\* asOf: the saves its rows knew of. overtaken: one came while it streamed.
Answers == [question : Questions, scope : Scopes, compare : Compared,
            asOf : 0..MaxSaves, overtaken : BOOLEAN]
NoCreate == [pc |-> "idle"]
Creates == [pc : {"numbered", "drawn"}, function : Functions, number : Numbers]
             \cup [pc : {"saved"}, function : Functions] \cup {NoCreate}

TypeOK ==
  /\ \A i \in DOMAIN cache : cache[i] \in Answers
  /\ versions \in [Functions -> SUBSET Numbers] /\ saves \in 0..MaxSaves
  /\ chat \in [Chats -> Answers \cup {None}] /\ saver \in [Savers -> Creates]

Init ==
  /\ cache = <<>> /\ saves = 0
  /\ versions = [f \in Functions |-> {}]
  /\ chat = [c \in Chats |-> None] /\ saver = [s \in Savers |-> NoCreate]

\* key: compareTo is no part of it.
SameKey(a, b) == a.question = b.question /\ a.scope = b.scope

Cached(ask) == {i \in DOMAIN cache : SameKey(cache[i], ask)}

\* streamChat: the rows of the latest runs are read before the cache is asked.
Ask(c, q, s, cmp) ==
  LET ask == [question |-> q, scope |-> s, compare |-> cmp, asOf |-> saves, overtaken |-> FALSE]
  IN /\ chat[c] = None
     /\ chat' = [chat EXCEPT ![c] = ask]
     /\ UNCHANGED <<cache, versions, saves, saver>>

\* get: an unexpired answer is served and nothing is asked of the sidecar.
Hit(c) ==
  /\ chat[c] # None /\ Cached(chat[c]) # {}
  /\ chat' = [chat EXCEPT ![c] = None]
  /\ UNCHANGED <<cache, versions, saves, saver>>

\* get: an expired answer is deleted when it is asked for.
Expire(c) ==
  /\ chat[c] # None /\ \E i \in Cached(chat[c]) : cache' = RemoveAt(cache, i)
  /\ UNCHANGED <<versions, saves, chat, saver>>

\* set: a full cache gives up the entry inserted first.
Room(entries) == IF Len(entries) >= MaxEntries THEN Tail(entries) ELSE entries

\* set: an answer under a key the Map has takes its place.
Stored(entries, answer) ==
  IF \E i \in DOMAIN entries : SameKey(entries[i], answer)
    THEN [i \in DOMAIN entries |-> IF SameKey(entries[i], answer) THEN answer ELSE entries[i]]
    ELSE Append(entries, answer)

\* The stream ends with a final event, and the answer is kept.
StreamEnds(c) ==
  /\ chat[c] # None
  /\ cache' = Stored(Room(cache), chat[c])
  /\ chat' = [chat EXCEPT ![c] = None]
  /\ UNCHANGED <<versions, saves, saver>>

\* It ends without one, or with an error.
StreamFails(c) ==
  /\ chat[c] # None
  /\ chat' = [chat EXCEPT ![c] = None]
  /\ UNCHANGED <<cache, versions, saves, saver>>

\* create: the number follows the function's highest.
NextNumber(f) == IF versions[f] = {} THEN 1 ELSE CHOOSE n \in Numbers \cup {MaxSaves + 1} :
                   n - 1 \in versions[f] /\ \A k \in versions[f] : k < n

\* create aggregates the highest number before it draws its code.
Number(s, f) ==
  /\ saver[s] = NoCreate /\ NextNumber(f) \in Numbers
  /\ saver' = [saver EXCEPT ![s] = [pc |-> "numbered", function |-> f, number |-> NextNumber(f)]]
  /\ UNCHANGED <<cache, versions, saves, chat>>

\* nextVersionCode: one transaction at a time holds the VER counter.
DrawCode(s) ==
  /\ saver[s].pc = "numbered" /\ \A t \in Savers : saver[t].pc # "drawn"
  /\ saver' = [saver EXCEPT ![s].pc = "drawn"]
  /\ UNCHANGED <<cache, versions, saves, chat>>

\* The unique index on function and number refuses the later of two.
Refuse(s) ==
  /\ saver[s].pc = "drawn" /\ saver[s].number \in versions[saver[s].function]
  /\ saver' = [saver EXCEPT ![s] = NoCreate]
  /\ UNCHANGED <<cache, versions, saves, chat>>

Save(s) ==
  LET call == saver[s] IN
  /\ call.pc = "drawn" /\ call.number \notin versions[call.function] /\ saves < MaxSaves
  /\ versions' = [versions EXCEPT ![call.function] = @ \cup {call.number}]
  /\ saves' = saves + 1
  /\ chat' = [c \in Chats |->
       IF chat[c] = None THEN None ELSE [chat[c] EXCEPT !.overtaken = TRUE]]
  /\ saver' = [saver EXCEPT ![s] = [pc |-> "saved", function |-> call.function]]
  /\ UNCHANGED cache

\* Mutant: only answers about the saved function are evicted.
EvictedFunction(f) == SelectSeq(cache, LAMBDA e : e.scope # f)

\* evictMatching as create calls it: every answer about the process goes.
Evicted(f) == <<>>

\* After the commit create announces the version, then evicts.
Evict(s) ==
  /\ saver[s].pc = "saved"
  /\ cache' = Evicted(saver[s].function)
  /\ saver' = [saver EXCEPT ![s] = NoCreate]
  /\ UNCHANGED <<versions, saves, chat>>

Next ==
  \/ \E c \in Chats :
       \/ \E q \in Questions, s \in Scopes, cmp \in Compared : Ask(c, q, s, cmp)
       \/ Hit(c) \/ Expire(c) \/ StreamEnds(c) \/ StreamFails(c)
  \/ \E s \in Savers :
       \/ \E f \in Functions : Number(s, f)
       \/ DrawCode(s) \/ Refuse(s) \/ Save(s) \/ Evict(s)

Spec == Init /\ [][Next]_vars

\* A cached answer that knows nothing of the version saved last was still
\* streaming when that was saved, or the save has yet to evict it.
StaleWasOvertaken ==
  \A i \in DOMAIN cache :
    cache[i].asOf < saves => cache[i].overtaken \/ \E s \in Savers : saver[s].pc = "saved"

\* The cache never outgrows its limit, nor has two answers under one key.
CacheIsBounded ==
  /\ Len(cache) <= MaxEntries
  /\ \A i, j \in DOMAIN cache : SameKey(cache[i], cache[j]) => i = j

\* The versions of a function are numbered without a gap, whichever saves
\* overlap.
VersionsAreGapless == \A f \in Functions : \A n \in versions[f] : 1..n \subseteq versions[f]

\* Together: the cache and the versions it answers from.
CacheFollowsVersions == StaleWasOvertaken /\ CacheIsBounded /\ VersionsAreGapless

\* Does not hold: a question asked after a version was saved, and its save
\* answered, is not answered from before that version.
NoStaleAnswer ==
  [][\A c \in Chats : Hit(c) =>
       \A i \in Cached(chat[c]) :
         cache[i].asOf < chat[c].asOf => \E s \in Savers : saver[s].pc = "saved"]_vars

=============================================================================
