------------------------------ MODULE Services ------------------------------
(***************************************************************************)
(* The session log and the services around the agent, one instance of      *)
(* each.                                                                   *)
(*                                                                         *)
(* None of these parts shares state with another, so one part runs in a    *)
(* behaviour, the focus: a behaviour is one of the sum of the instances    *)
(* and not of their product.  The log has variables of its own; the others *)
(* take turns in the same slots, as the instances below say.               *)
(***************************************************************************)
EXTENDS SessionLog, Sequences

\* The constants of the services, as their modules explain them.  MaxFaults is
\* the bound of the log and of every service.
CONSTANTS
  Jobs, Owners, JobChildren, MaxCalls, MaxLive,                        \* Jobs
  LiveRetain, SettledRetain, Chunks, MaxBytes, MaxDisturbed,
  Fronts, Questions, Batches, MaxSelects, MaxTurns, MaxRestarts,       \* Consent
  Plugins, MaxCleanups, CallIds, Closers,                              \* Lifecycle
  Providers, Updaters, MaxEdits, MaxUpdates,                           \* Settings
  Clients, Routes, MaxGrants, MaxOps, MaxCrashes,                      \* Accounts
  SpillCalls, OldFiles, Others, Attempts,                              \* Spill
  Digests, Ops, Peers, MaxConversions, MaxLosses,                      \* Attachments
  Steps, Policies, Failures,                                           \* Retry
  Arguments, MaxQueries, MaxResults, Answers,                          \* WebSearch
  Output, MaxWrite, Limit, Graces,                                     \* Command
  FileContents, Large, Sessions, Readers, MaxWrites, MaxOutside        \* FileGuard

\* Nobody is neither a job nor a session; a decoded write is not empty and
\* begins with a character.
ASSUME JobsAssumption ==
  /\ "none" \notin Jobs \cup Owners /\ MaxCalls \in [Owners -> Nat] /\ LiveRetain \in Nat /\ SettledRetain \in Nat
  /\ \A k \in Chunks : k.len \in Nat \ {0} /\ 0 \in k.runes /\ k.runes \subseteq 0..(k.len - 1)

\* The names of the poller, of nobody and of the lock file's other owners are
\* no updater's; a process has finitely many calls of Update under way.
ASSUME SettingsAssumption ==
  /\ {"free", "other", "nobody", "poller"} \cap Updaters = {} /\ "nobody" \notin Providers
  /\ IsFiniteSet(Updaters) /\ MaxEdits \in Nat /\ MaxUpdates \in Nat

\* "none" stands for no route, "free" for no owner of the lock file.
ASSUME AccountsAssumption == "none" \notin Routes /\ "free" \notin Clients

\* The composition has a plugin, the session's own.
ASSUME LifecycleAssumption == Plugins \in Nat \ {0}

\* A process has finitely many calls of the attachment store under way.
ASSUME AttachmentsAssumption == IsFiniteSet(Ops)

\* "free" stands for no owner of the path lock, "unseen" for no content.
ASSUME FilesAssumption == "free" \notin Sessions /\ "unseen" \notin FileContents

\* "nobody" stands for no holder of the layout lock, and the artifacts of
\* earlier runs have names of their own.
ASSUME SpillAssumption == IsFiniteSet(SpillCalls) /\ "nobody" \notin SpillCalls /\ OldFiles \cap SpillCalls = {}

\* What the settings allow of a retry policy (settings.go, validate); jitter is
\* in percent.  A policy is known by its id.
ASSUME RetryAssumption ==
  /\ Policies \subseteq [id : Nat, mode : {"normal", "always"}, retries : Nat, initial : Nat \ {0}, max : Nat \ {0}, jitter : 0..100]
  /\ \A p, q \in Policies : p.id = q.id => p = q
  /\ \A failure \in Failures : failure.after \in Nat

\* Sources and queries are counted; a provider answers with sources.
ASSUME SearchAssumption == MaxQueries \in Nat /\ MaxResults \in Nat /\ Answers \subseteq Seq(STRING)

\* A read of the pipe, and what is retained of it, is a number of bytes.
ASSUME CommandAssumption == MaxWrite \in Nat /\ Limit \in Nat

VARIABLES
  focus,  \* the part that runs: "log" or a service
  x1, x2, x3, x4, x5, x6, x7, x8, x9, x10, x11, x12, x13  \* the service's state

slots == <<x1, x2, x3, x4, x5, x6, x7, x8, x9, x10, x11, x12, x13>>

-----------------------------------------------------------------------------
(* The instances.                                                          *)

Jb == INSTANCE Jobs WITH
      Children <- JobChildren,
      job <- x1, ring <- x2, cursor <- x3, prod <- x4, call <- x5,
      disturbed <- x6, service <- x7, base <- x8, release <- x9, told <- x10,
      finished <- x11, noticed <- x12, dropped <- x13

Cn == INSTANCE Consent WITH
      plog <- x1, ps <- x2, service <- x3, user <- x4, turn <- x5, asks <- x6,
      wanted <- x7, shown <- x8, left <- x9

Lf == INSTANCE Lifecycle WITH
      state <- x1, owner <- x2, at <- x3, mounted <- x4, scope <- x5,
      closing <- x6, ran <- x7, calls <- x8, callers <- x9

St == INSTANCE Settings WITH
      file <- x1, lock <- x2, hash <- x3, service <- x4, writeMu <- x5,
      poll <- x6, upd <- x7, commits <- x8, prov <- x9, done <- x10,
      overlap <- x11, left <- x12

Ac == INSTANCE Accounts WITH
      records <- x1, lock <- x2, op <- x3, life <- x4, issued <- x5,
      expired <- x6, spent <- x7, replays <- x8, lost <- x9, left <- x10

Sp == INSTANCE Spill WITH
      Calls <- SpillCalls,
      tree <- x1, files <- x2, layout <- x3, store <- x4, call <- x5,
      sweeper <- x6, raced <- x7, left <- x8

Im == INSTANCE Attachments WITH
      prefix <- x1, entry <- x2, bytes <- x3, store <- x4, op <- x5,
      observer <- x6, refs <- x7, damaged <- x8, left <- x9

Re == INSTANCE Retry WITH
      service <- x1, policy <- x2, step <- x3, log <- x4, left <- x5

Ws == INSTANCE WebSearch WITH
      service <- x1, call <- x2, query <- x3, log <- x4, first <- x5,
      left <- x6

Co == INSTANCE Command WITH
      proc <- x1, pipe <- x2, ctx <- x3, observer <- x4, killed <- x5,
      run <- x6, tail <- x7, spill <- x8, shell <- x9, left <- x10

Fi == INSTANCE FileGuard WITH
      Contents <- FileContents,
      file <- x1, obs <- x2, lock <- x3, op <- x4, reads <- x5, staged <- x6,
      stuck <- x7, raced <- x8, left <- x9

-----------------------------------------------------------------------------
(* The log runs, or one service does.                                      *)

\* The slots from n on are not used by the service that runs.
Spare(n) ==
  /\ n <= 1 => x1 = "spare" /\ x2 = "spare" /\ x3 = "spare" /\ x4 = "spare" /\ x5 = "spare"
  /\ n <= 6 => x6 = "spare"
  /\ n <= 7 => x7 = "spare" /\ x8 = "spare"
  /\ n <= 9 => x9 = "spare"
  /\ n <= 10 => x10 = "spare"
  /\ n <= 11 => x11 = "spare" /\ x12 = "spare"
  /\ n <= 13 => x13 = "spare"

ServiceInit ==
  \/ focus = "jobs" /\ Jb!Init
  \/ focus = "consent" /\ Cn!Init /\ Spare(10)
  \/ focus = "lifecycle" /\ Lf!Init /\ Spare(10)
  \/ focus = "settings" /\ St!Init /\ Spare(13)
  \/ focus = "accounts" /\ Ac!Init /\ Spare(11)
  \/ focus = "spill" /\ Sp!Init /\ Spare(9)
  \/ focus = "images" /\ Im!Init /\ Spare(10)
  \/ focus = "retry" /\ Re!Init /\ Spare(6)
  \/ focus = "search" /\ Ws!Init /\ Spare(7)
  \/ focus = "command" /\ Co!Init /\ Spare(11)
  \/ focus = "files" /\ Fi!Init /\ Spare(10)

ServiceNext ==
  \/ focus = "jobs" /\ Jb!Next
  \/ focus = "consent" /\ Cn!Next /\ UNCHANGED <<x10, x11, x12, x13>>
  \/ focus = "lifecycle" /\ Lf!Next /\ UNCHANGED <<x10, x11, x12, x13>>
  \/ focus = "settings" /\ St!Next /\ UNCHANGED <<x13>>
  \/ focus = "accounts" /\ Ac!Next /\ UNCHANGED <<x11, x12, x13>>
  \/ focus = "spill" /\ Sp!Next /\ UNCHANGED <<x9, x10, x11, x12, x13>>
  \/ focus = "images" /\ Im!Next /\ UNCHANGED <<x10, x11, x12, x13>>
  \/ focus = "retry" /\ Re!Next /\ UNCHANGED <<x6, x7, x8, x9, x10, x11, x12, x13>>
  \/ focus = "search" /\ Ws!Next /\ UNCHANGED <<x7, x8, x9, x10, x11, x12, x13>>
  \/ focus = "command" /\ Co!Next /\ UNCHANGED <<x11, x12, x13>>
  \/ focus = "files" /\ Fi!Next /\ UNCHANGED <<x10, x11, x12, x13>>

ServicesInit ==
  /\ Init
  /\ ServiceInit \/ (focus = "log" /\ Spare(1))

ServicesNext ==
  \/ focus = "log" /\ Next /\ UNCHANGED <<focus, slots>>
  \/ ServiceNext /\ UNCHANGED <<focus, vars>>

ServicesSpec == ServicesInit /\ [][ServicesNext]_<<focus, vars, slots>>

-----------------------------------------------------------------------------
(* The properties of the services, under the names of their modules.       *)

\* Every settlement of a job is reported, through calls that give up, are
\* cancelled or released (app/job).
JobsReported == focus = "jobs" => Jb!JobsReported

\* Reads of a job's output are consecutive, and lossy only under load.
JobOutputKept == focus = "jobs" => Jb!JobOutputKept

\* The last choice of the person is the mode of the session, and the model
\* is told of every switch (app/plan, app/question).
ConsentKept == focus = "consent" => Cn!ConsentKept

\* Every registered effect of every plugin is undone once, in reverse order,
\* before the runtime says it stopped (core/plugin).
EffectsUndone == focus = "lifecycle" => Lf!EffectsUndone

\* Settings are committed, followed and withdrawn whole (app/settings).
SettingsKept == focus = "settings" => St!SettingsKept

\* The credential file shared by several processes behaves as AccountRecords.
AccountsImplement ==
  /\ focus = "accounts" => Ac!Abstract!Init
  /\ [][focus = "accounts" => [Ac!Abstract!Next]_(Ac!Abstract!vars)]_<<focus, slots>>

\* No rotated refresh token is lost but by a fault (app/llm, the providers).
GrantKept == focus = "accounts" => Ac!GrantKept

\* Artifacts outlive sweeps (adapter/spill).
SpillKept == focus = "spill" => Sp!SpillKept

\* A returned image reference names durable bytes (adapter/attachment).
ReferencesDurable == focus = "images" => Im!ReferencesDurable

\* Retries form a ladder and end with the service (app/retry).
RetryKept == focus = "retry" => Re!RetryKept

\* Searches are recorded in order before they are sent, and merged fairly
\* (app/web).
SearchKept == focus = "search" => Ws!SearchKept

\* A command's group, observer and output are gone or accounted for when it
\* returns (platform/process, adapter/tool/shell).
CommandKept == focus = "command" => Co!CommandKept

\* Mutations replace only what their session has seen (adapter/tool/file).
FileKept == [][focus = "files" => Fi!PublishesSeen /\ Fi!StagingGone']_<<focus, slots>>
=============================================================================
