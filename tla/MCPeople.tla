------------------------------- MODULE MCPeople -------------------------------
(* The people around a process, for TLC: its members and their grants, the   *)
(* process row they edit, who is looking at it, their preferences, and the   *)
(* directory its tracking entries refer to. They share no state, so a        *)
(* behaviour follows one of them, the focus, while the others rest.          *)
EXTENDS Naturals

CONSTANTS
  None, Gone, u1, u2,
  Users, Slots, Handlers, Overlapping, Asked, MaxRows,
  Editors, Fields, Values, MaxVersion,
  Browsers, Procs, Allowed, MaxSockets, MaxViews,
  Notices, Views,
  Listing, Emails, Names, Processes, MaxCalls

VARIABLES
  focus,
  member, rows, rowLock, memberCall,
  row, copy, base, save,
  view, views, socket, online, inbox, checks, closed, rooms, bucket, index, late,
  data, published, request, during,
  entry, tracked, call, calls

Members == INSTANCE ProcessMembers WITH call <- memberCall
Record == INSTANCE ProcessRecord
Watching == INSTANCE Presence
Preferences == INSTANCE UserPreferences WITH row <- data, call <- request
Listed == INSTANCE Directory WITH
  Ids <- Listing, Procs <- Processes, Requests <- Slots, rows <- tracked

\* Requests name permissions; None is no row, no row's id and no slot.
MemberBounds ==
  /\ Asked \subseteq Members!Perms /\ MaxRows \in Nat \ {0}
  /\ None \notin Members!Row /\ None \notin Nat /\ None \notin Slots

\* None is no entry and no call.
DirectoryBounds == MaxCalls \in Nat /\ None \notin Listed!Entries /\ None \notin Listed!Calls

\* No process goes by the name of none.
NoneIsNoProcess == None \notin Procs

\* None is no content of the column.
NoneIsNoData == \A S \in SUBSET Preferences!Items : S # None

\* The bounds on what a browser does.
BrowserBounds == MaxSockets \in Nat \ {0} /\ MaxViews \in Nat

ASSUME ConstantsAreApart ==
  MemberBounds /\ DirectoryBounds /\ NoneIsNoProcess /\ NoneIsNoData /\ BrowserBounds

members == <<member, rows, rowLock, memberCall>>
record == <<row, copy, base, save>>
watching == <<view, views, socket, online, inbox, checks, closed, rooms, bucket, index, late>>
preferences == <<data, published, request, during>>
directory == <<entry, tracked, call, calls>>

vars == <<focus, members, record, watching, preferences, directory>>

Init ==
  /\ focus \in {"members", "record", "watching", "preferences", "directory"}
  /\ Members!Init /\ Record!Init /\ Watching!Init /\ Preferences!Init /\ Listed!Init
  \* What rests starts in one state.
  /\ focus # "members" => member[u1] # None
  /\ focus # "record" => row.data["name"] = CHOOSE v \in Values : TRUE
  /\ focus # "directory" =>
       entry[CHOOSE i \in Listing : TRUE].email = CHOOSE a \in Emails : TRUE

Next ==
  /\ UNCHANGED focus
  /\ \/ /\ focus = "members" /\ Members!Next
        /\ UNCHANGED <<record, watching, preferences, directory>>
     \/ /\ focus = "record" /\ Record!Next
        /\ UNCHANGED <<members, watching, preferences, directory>>
     \/ /\ focus = "watching" /\ Watching!Next
        /\ UNCHANGED <<members, record, preferences, directory>>
     \/ /\ focus = "preferences" /\ Preferences!Next
        /\ UNCHANGED <<members, record, watching, directory>>
     \/ /\ focus = "directory" /\ Listed!Next
        /\ UNCHANGED <<members, record, watching, preferences>>

Rest == UNCHANGED <<focus, members, record, preferences, directory>>

Fairness ==
  /\ \A b \in Browsers : WF_vars(focus = "watching" /\ Watching!Reconnect(b) /\ Rest)
  /\ \A s \in Watching!Sockets : WF_vars(focus = "watching" /\ Watching!Serve(s) /\ Rest)

FairSpec == Init /\ [][Next]_vars /\ Fairness

TypeOK ==
  /\ Members!MembersTypeOK /\ Record!TypeOK /\ Watching!TypeOK /\ Preferences!TypeOK
  /\ Listed!TypeOK

GrantsDecide == Members!GrantsDecide
CountedOwnerStays == Members!CountedOwnerStays
RowIsVersioned == Record!RowIsVersioned
\* Together: who is shown as present holds a socket, and who looks is shown.
PresenceFollowsSockets == []Watching!PresenceIsConsistent /\ Watching!ViewerIsPresent
LostToOverlapOnly == Preferences!LostToOverlapOnly
ReferencesFollow == Listed!ReferencesFollow
=============================================================================
