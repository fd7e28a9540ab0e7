----------------------------- MODULE Permissions ------------------------------
(***************************************************************************)
(* PermissionManager's copy of the permissions file and the goroutine that *)
(* keeps it up to date: the Load at startup, Watch, its debounce timer and *)
(* the reloads, against a file that an editor or kubelet changes.          *)
(*                                                                         *)
(* An inotify watch belongs to an inode.  An edit in place reports a write *)
(* to the watch; kubelet swaps the symlink to a new file without a report, *)
(* and the watch ends with a remove event when it deletes the old file.    *)
(***************************************************************************)
EXTENDS Naturals, Policy

CONSTANTS
  Contents,    \* what the file can hold once it parses
  Garbage,     \* a file that is not YAML
  MaxEdits,    \* bound on the changes of the file
  QuietStart,  \* whether the file stands still until the watch is in place
  MayVanish    \* whether the path can be without a file for a while

ASSUME BoundAssumption == MaxEdits \in Nat

VARIABLES
  file,        \* the content behind the path
  exists,      \* whether there is a file behind the path
  version,     \* how often the file changed
  watch,       \* the inode watched: "none", "current" or a replaced one, "old"
  events,      \* the kinds of events not yet received from the watcher
  timer,       \* whether the reload timer runs
  pc,          \* "boot", "firstApply" (startup Load), "start", "loop", "apply", "exit"
  read,        \* what Load read and is about to apply, with its version
  policy,      \* [admins, users, namespaces], as the handlers see it
  applied,     \* history: the last content that Load parsed, the version it
               \* last read, and whether it returned nil
  missed       \* history: whether the file changed before the first watch, or
               \* was away when the watch was to be renewed, with no reload since

disk == <<file, exists, version>>
vars == <<disk, watch, events, timer, pc, read, policy, applied, missed>>

NoPolicy == [admins |-> {},
             users |-> [u \in Users |-> NoEntry],
             namespaces |-> [k \in Subjects |-> NoEntry]]

Init ==
  /\ file \in Contents
  /\ exists = TRUE
  /\ version = 0
  /\ watch = "none"
  /\ events = {}
  /\ timer = FALSE
  /\ pc = "boot"
  /\ read = [content |-> Garbage, version |-> 0]
  /\ policy = NoPolicy
  /\ applied = [content |-> Garbage, version |-> 0, ok |-> FALSE]
  /\ missed = FALSE

-----------------------------------------------------------------------------
(* The file changes (external).                                            *)
MayEdit ==
  /\ version < MaxEdits
  /\ QuietStart => pc \in {"loop", "apply"}

(* An editor truncates the file or writes to it. *)
EditInPlace(c) ==
  /\ MayEdit
  /\ exists
  /\ file' = c
  /\ version' = version + 1
  /\ events' = IF watch = "current" THEN events \cup {"write"} ELSE events
  /\ UNCHANGED <<exists, watch, timer, pc, read, policy, applied, missed>>

(* kubelet points the path to a new file; the old one stays for a moment. *)
Swap(c) ==
  /\ MayEdit
  /\ exists
  /\ file' = c
  /\ version' = version + 1
  /\ watch' = IF watch = "current" THEN "old" ELSE watch
  /\ UNCHANGED <<exists, events, timer, pc, read, policy, applied, missed>>

DeleteOld ==
  /\ watch = "old"
  /\ watch' = "none"
  /\ events' = events \cup {"remove"}
  /\ UNCHANGED <<disk, timer, pc, read, policy, applied, missed>>

(* An editor moves the file away, and writes the new one later. *)
MoveAway ==
  /\ MayVanish
  /\ MayEdit
  /\ exists
  /\ exists' = FALSE
  /\ watch' = IF watch = "current" THEN "none" ELSE watch
  /\ events' = IF watch = "current" THEN events \cup {"remove"} ELSE events
  /\ UNCHANGED <<file, version, timer, pc, read, policy, applied, missed>>

WriteAnew(c) ==
  /\ MayEdit
  /\ ~exists
  /\ exists' = TRUE
  /\ file' = c
  /\ version' = version + 1
  /\ UNCHANGED <<watch, events, timer, pc, read, policy, applied, missed>>

-----------------------------------------------------------------------------
(***************************************************************************)
(* Load reads the file, and takes the lock and fills the maps once it is   *)
(* parsed.  It leaves the maps alone when there is no file or no YAML.     *)
(***************************************************************************)
ReadFile(next) ==
  IF exists
    THEN /\ read' = [content |-> file, version |-> version]
         /\ pc' = next
    ELSE /\ pc' = IF pc = "boot" THEN "exit" ELSE "loop"
         /\ UNCHANGED read

LoadAtStart ==
  /\ pc = "boot"
  /\ ReadFile("firstApply")
  /\ UNCHANGED <<disk, watch, events, timer, policy, applied, missed>>

(* The timer fires after 100 ms without an event. *)
Reload ==
  /\ pc = "loop"
  /\ timer
  /\ timer' = FALSE
  /\ ReadFile("apply")
  /\ missed' = (missed /\ watch = "none")
  /\ UNCHANGED <<disk, watch, events, policy, applied>>

(* Mutant of LoadApply: Load does not empty the map of users first. *)
LoadMerges ==
  /\ pc \in {"firstApply", "apply"}
  /\ LET c  == read.content
         ok == c # Garbage /\ Broken(c) = {}
         Merged(q) == [q EXCEPT !.users = [u \in Users |->
                         IF q.users[u] = NoEntry THEN policy.users[u] ELSE q.users[u]]]
     IN  /\ policy' \in IF c = Garbage THEN {policy}
                        ELSE {Merged(q) : q \in LoadOutcomes(c, policy.admins)}
         /\ applied' = [content |-> IF c = Garbage THEN applied.content ELSE c,
                        version |-> read.version, ok |-> ok]
         /\ pc' = IF pc = "apply" THEN "loop" ELSE IF ok THEN "start" ELSE "exit"
  /\ UNCHANGED <<disk, watch, events, timer, read, missed>>

LoadApply ==
  /\ pc \in {"firstApply", "apply"}
  /\ LET c  == read.content
         ok == c # Garbage /\ Broken(c) = {}
     IN  /\ policy' \in IF c = Garbage THEN {policy} ELSE LoadOutcomes(c, policy.admins)
         /\ applied' = [content |-> IF c = Garbage THEN applied.content ELSE c,
                        version |-> read.version, ok |-> ok]
         /\ pc' = IF pc = "apply" THEN "loop"
                  ELSE IF ok THEN "start" ELSE "exit"    \* main exits when the first Load fails
  /\ UNCHANGED <<disk, watch, events, timer, read, missed>>

(* Watch begins: without a file it returns an error, and the program ends. *)
WatchStart ==
  /\ pc = "start"
  /\ watch' = IF exists THEN "current" ELSE "none"
  /\ pc' = IF exists THEN "loop" ELSE "exit"
  /\ missed' = (exists /\ read.version # version)
  /\ UNCHANGED <<disk, events, timer, read, policy, applied>>

(* Mutant of HandleWrite: a write while the timer runs stops it for good. *)
HandleWriteStops ==
  /\ pc = "loop"
  /\ "write" \in events
  /\ events' = events \ {"write"}
  /\ timer' = ~timer
  /\ UNCHANGED <<disk, watch, pc, read, policy, applied, missed>>

HandleWrite ==
  /\ pc = "loop"
  /\ "write" \in events
  /\ events' = events \ {"write"}
  /\ timer' = TRUE
  /\ UNCHANGED <<disk, watch, pc, read, policy, applied, missed>>

(* Mutant of HandleRemove: the watch is renewed without a reload. *)
HandleRemoveNoReload ==
  /\ pc = "loop"
  /\ "remove" \in events
  /\ events' = events \ {"remove"}
  /\ watch' = IF exists THEN "current" ELSE "none"
  /\ missed' = (missed \/ ~exists)
  /\ UNCHANGED <<disk, timer, pc, read, policy, applied>>

(* Mutant of HandleRemove: the reload is due, and the watch is not renewed. *)
HandleRemoveNoWatch ==
  /\ pc = "loop"
  /\ "remove" \in events
  /\ events' = events \ {"remove"}
  /\ timer' = (exists \/ timer)
  /\ missed' = (missed \/ ~exists)
  /\ UNCHANGED <<disk, watch, pc, read, policy, applied>>

(* The watch goes to the file that is there now, before the reload. *)
HandleRemove ==
  /\ pc = "loop"
  /\ "remove" \in events
  /\ events' = events \ {"remove"}
  /\ IF exists
       THEN watch' = "current" /\ timer' = TRUE
       ELSE watch' = "none" /\ UNCHANGED timer
  /\ missed' = (missed \/ ~exists)
  /\ UNCHANGED <<disk, pc, read, policy, applied>>

-----------------------------------------------------------------------------
Goroutine ==
  LoadAtStart \/ LoadApply \/ WatchStart \/ HandleWrite \/ HandleRemove \/ Reload

Next ==
  \/ \E c \in Contents \cup {Garbage} : EditInPlace(c) \/ Swap(c) \/ WriteAnew(c)
  \/ DeleteOld
  \/ MoveAway
  \/ Goroutine

(***************************************************************************)
(* The goroutine runs, select serves each ready channel in its turn, and   *)
(* kubelet deletes the file it replaced.                                   *)
(***************************************************************************)
Spec ==
  /\ Init
  /\ [][Next]_vars
  /\ WF_vars(LoadAtStart) /\ WF_vars(LoadApply) /\ WF_vars(WatchStart)
  /\ WF_vars(HandleRemove) /\ WF_vars(HandleWrite) /\ WF_vars(Reload)
  /\ WF_vars(DeleteOld)

-----------------------------------------------------------------------------
(* q holds nothing for a user or a workload but what the file c gives it;  *)
(* of a torn list that is the part that decodes.                           *)
Within(q, c) ==
  /\ \A u \in Users : q.users[u] \in {NoEntry, Given(c.users[u])}
  /\ \A k \in Subjects : q.namespaces[k] \in {NoEntry, Given(c.namespaces[k])}

(* q is what the file c says, but for admins that it does not mention. *)
Follows(q, c) ==
  /\ \A u \in Users : q.users[u] = Given(c.users[u])
  /\ \A k \in Subjects : q.namespaces[k] = Given(c.namespaces[k])
  /\ c.admins # NoEntry => q.admins = Given(c.admins)

(* Once Load has parsed a file, in whatever order it met the sections and  *)
(* wherever it failed, no user and no workload has an entry in memory that *)
(* this file does not give it, and no user has half of a torn list; if Load*)
(* returned nil, memory is the file, and who is not on its list of admins, *)
(* if it has one, is none.  The first is still so after later reloads that *)
(* find no file or no YAML.  It is about entries, not about paths: who was *)
(* an admin may stay one (AdminsFollowFile), and a workload whose own entry*)
(* was not decoded falls back to that of its namespace.                    *)
RevokedIsGone ==
  applied.content # Garbage =>
    /\ Within(policy, applied.content)
    /\ \A u \in Users : policy.users[u] # NoEntry => ~Fails(applied.content.users[u])
    /\ applied.ok => Follows(policy, applied.content)

(* A change of the file that is not in memory, and that was not missed at  *)
(* the start or while the path was empty, is always still on its way: an   *)
(* event waits, the timer runs, a Load has just read this version, or the  *)
(* watch is on a replaced file whose deletion will be reported.  No order  *)
(* of edits, events and reloads uses up the last of these.                 *)
NothingForgotten ==
  pc \in {"loop", "apply"} /\ applied.version # version =>
    \/ missed
    \/ events # {}
    \/ timer
    \/ watch = "old"
    \/ pc = "apply" /\ read.version = version

Loaded ==
  \/ pc = "exit"
  \/ applied.version = version /\ (applied.ok => Follows(policy, file))

(* Unless the file changed before the first watch, or was away when Watch  *)
(* wanted to renew the watch, the policy in memory comes to be that of the *)
(* file after its last change, whatever was edited, swapped, deleted or    *)
(* half written while Watch handled earlier events and Load was reading.   *)
ConvergesWhenWatched == <>[](missed \/ Loaded)

(* Whatever Watch is told of gets the file loaded, as it is then or later, *)
(* unless there is none for the moment: a change that was missed at the    *)
(* start or without a watch is made good with the next one reported, and no*)
(* event is swallowed by another, by the timer or by a reload under way.   *)
ReportedIsLoaded ==
  \A n \in 0..MaxEdits : (events # {} /\ version = n) ~> (applied.version >= n \/ ~exists)

(* Watch's comment: it "reloads the configuration whenever it changes" and *)
(* "correctly handles both regular filesystem edits and Kubernetes         *)
(* ConfigMap/Secret volumes".  After the last change of the file, however  *)
(* it was made, the policy in memory comes to be that of the file.         *)
Converges == <>[]Loaded

(* README: "Watch for permissions file changes and reload without a need to*)
(* restart the applications."  After a Load that succeeded, the admins are *)
(* those of the file.                                                      *)
AdminsFollowFile ==
  applied.ok => policy.admins = IF IsList(applied.content.admins)
                                  THEN applied.content.admins.items ELSE {}
=============================================================================
