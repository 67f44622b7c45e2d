---------------------------- MODULE ClientPaths ----------------------------
(***************************************************************************)
(* Connection migration at the client (path_manager_outgoing.go): the      *)
(* application probes, switches to and closes paths in goroutines of its   *)
(* own, the run loop sends the probes and handles the answers.             *)
(* Connection IDs for the paths are counted.                               *)
(***************************************************************************)
EXTENDS Integers, Sequences, FiniteSets, SequencesExt

CONSTANTS Paths,        \* path 0 is the one of the handshake, and not among them
          NumIDs,       \* unused connection IDs of the peer
          MaxLosses,    \* lost probes and answers, calls whose context ends
          ProbeClosed   \* does the application probe a path after it called Close?

VARIABLES paths,        \* pathManagerOutgoing.paths
          pathsToProbe, activePath, pathToSwitchTo,
          prober,       \* per path: Probe, and its timer
          validated,    \* Path.validated
          abandon,      \* Path.abandon is closed
          closer,       \* Path.Close
          current,      \* the path the connection uses
          sched, idFor, ids, retired,
          net, losses

pmap == <<paths, pathsToProbe, activePath, pathToSwitchTo>>
app == <<prober, validated, abandon, closer>>
conn == <<current, sched, idFor, ids, retired>>
qvars == <<pmap, app, conn, net, losses>>

\* A challenge is identified by the path, and by whether the path was added
\* again after it had been removed.
newPath ==
  [exists |-> TRUE, pathChallenges |-> FALSE, again |-> FALSE, isValidated |-> FALSE,
   sent |-> FALSE, closed |-> FALSE]

QInit ==
  /\ paths = [p \in Paths |-> [newPath EXCEPT !.exists = FALSE]] /\ pathsToProbe = <<>>
  /\ activePath = 0 /\ pathToSwitchTo = 0
  /\ prober = [p \in Paths |-> [pc |-> "idle", timer |-> FALSE]]
  /\ validated = {} /\ abandon = {} /\ closer = [p \in Paths |-> "idle"]
  /\ current = 0 /\ sched = FALSE /\ idFor = {} /\ ids = NumIDs /\ retired = {}
  /\ net = {} /\ losses = MaxLosses

enqueueProbe(p) == pathsToProbe' = Append(pathsToProbe, p) /\ sched' = TRUE

addPath(p) == IF paths[p].exists THEN [paths[p] EXCEPT !.closed = FALSE]
              ELSE [newPath EXCEPT !.again = closer[p] # "idle"]

\* The application calls Probe.
Probe(p) ==
  /\ prober[p].pc # "wait"
  /\ closer[p] # "idle" => ProbeClosed
  /\ paths' = [paths EXCEPT ![p] = addPath(p)]
  /\ enqueueProbe(p)
  /\ prober' = [prober EXCEPT ![p] = [pc |-> "wait", timer |-> FALSE]]
  /\ UNCHANGED <<activePath, pathToSwitchTo, validated, abandon, closer, current, idFor, ids, retired,
                 net, losses>>

\* The select in Probe.  After a probe was sent, or sent again, the timer runs.
ProbeValidated(p) ==
  /\ prober[p].pc = "wait" /\ paths[p].closed
  /\ prober' = [prober EXCEPT ![p] = [pc |-> "ok", timer |-> FALSE]]
  /\ validated' = validated \cup {p}
  /\ UNCHANGED <<pmap, abandon, closer, conn, net, losses>>

\* MUTANT: the timer is left alone when the probe has been sent.
ProbeSent_bug(p) ==
  /\ prober[p].pc = "wait" /\ paths[p].sent
  /\ paths' = [paths EXCEPT ![p].sent = FALSE]
  /\ UNCHANGED <<pathsToProbe, activePath, pathToSwitchTo, app, conn, net, losses>>

ProbeSent(p) ==
  /\ prober[p].pc = "wait" /\ paths[p].sent
  /\ paths' = [paths EXCEPT ![p].sent = FALSE]
  /\ prober' = [prober EXCEPT ![p].timer = TRUE]
  /\ UNCHANGED <<pathsToProbe, activePath, pathToSwitchTo, validated, abandon, closer, conn, net, losses>>

\* The timer backs off: it fires once nothing is under way for the path.
ProbeTimeout(p) ==
  /\ prober[p].pc = "wait" /\ prober[p].timer
  /\ ~\E x \in net : x.path = p
  /\ p \notin ToSet(pathsToProbe)
  /\ ~paths[p].closed /\ ~paths[p].sent /\ p \notin abandon
  /\ enqueueProbe(p)
  /\ UNCHANGED <<paths, activePath, pathToSwitchTo, app, current, idFor, ids, retired, net, losses>>

ProbeAbandoned(p) ==
  /\ prober[p].pc = "wait" /\ p \in abandon
  /\ prober' = [prober EXCEPT ![p] = [pc |-> "closed", timer |-> FALSE]]
  /\ UNCHANGED <<pmap, validated, abandon, closer, conn, net, losses>>

ProbeCancelled(p) ==
  /\ prober[p].pc = "wait" /\ losses > 0 /\ losses' = losses - 1
  /\ prober' = [prober EXCEPT ![p] = [pc |-> "cancelled", timer |-> FALSE]]
  /\ UNCHANGED <<pmap, validated, abandon, closer, conn, net>>

\* Close: removePath, then the channel.
ClosePath(p) ==
  /\ \/ /\ closer[p] = "idle" /\ p # activePath
        /\ paths' = [paths EXCEPT ![p].exists = FALSE]
        /\ retired' = IF paths[p].exists /\ paths[p].pathChallenges THEN retired \cup {p} ELSE retired
        /\ sched' = TRUE
        /\ closer' = [closer EXCEPT ![p] = "removed"] /\ UNCHANGED abandon
     \/ /\ closer[p] = "removed"
        /\ abandon' = abandon \cup {p} /\ closer' = [closer EXCEPT ![p] = "done"]
        /\ UNCHANGED <<paths, retired, sched>>
  /\ UNCHANGED <<pathsToProbe, activePath, pathToSwitchTo, prober, validated, current, idFor, ids,
                 net, losses>>

\* MUTANT: a path is switched to before its answer is there.
CanSwitch_bug(p) == paths[p].exists

CanSwitch(p) == paths[p].exists /\ paths[p].isValidated

Switch(p) ==
  /\ CanSwitch(p) /\ activePath # p
  /\ pathToSwitchTo' = p /\ activePath' = p
  /\ UNCHANGED <<paths, pathsToProbe, app, conn, net, losses>>

---------------------------------------------------------------------------
(* The run loop and the network                                            *)

\* NextPathToProbe, with GetConnIDForPath: abandoned paths are skipped.
SendProbe ==
  LET live == SelectSeq(pathsToProbe, LAMBDA p : paths[p].exists)
      p == Head(live)
      n == CHOOSE i \in DOMAIN pathsToProbe :
             pathsToProbe[i] = p /\ \A j \in 1 .. i - 1 : ~paths[pathsToProbe[j]].exists
  IN  /\ sched
      /\ IF live = <<>>
         THEN /\ pathsToProbe' = <<>> /\ sched' = FALSE
              /\ UNCHANGED <<paths, idFor, ids, net>>
         ELSE IF p \notin idFor \ retired /\ ids = 0
         THEN /\ pathsToProbe' = SubSeq(pathsToProbe, n, Len(pathsToProbe)) /\ sched' = FALSE
              /\ UNCHANGED <<paths, idFor, ids, net>>
         ELSE /\ pathsToProbe' = SubSeq(pathsToProbe, n + 1, Len(pathsToProbe))
              /\ paths' = [paths EXCEPT ![p].pathChallenges = TRUE, ![p].sent = TRUE]
              /\ idFor' = idFor \cup {p}
              /\ ids' = IF p \in idFor \ retired THEN ids ELSE ids - 1
              /\ net' = net \cup {[path |-> p, again |-> paths[p].again]}
              /\ UNCHANGED sched
  /\ UNCHANGED <<activePath, pathToSwitchTo, app, current, retired, losses>>

\* The answer to a challenge arrives; a duplicate is ignored.
HandlePathResponse(x) ==
  /\ x \in net /\ net' = net \ {x}
  /\ paths' = [p \in Paths |->
       IF /\ paths[p].exists /\ p = x.path /\ x.again = paths[p].again
          /\ paths[p].pathChallenges /\ ~paths[p].isValidated
       THEN [paths[p] EXCEPT !.isValidated = TRUE, !.pathChallenges = FALSE, !.closed = TRUE]
       ELSE paths[p]]
  /\ UNCHANGED <<pathsToProbe, activePath, pathToSwitchTo, app, conn, losses>>

LoseProbe(x) ==
  /\ losses > 0 /\ losses' = losses - 1 /\ net' = net \ {x}
  /\ UNCHANGED <<pmap, app, conn>>

SwitchToNewPath ==
  /\ pathToSwitchTo # 0
  /\ current' = pathToSwitchTo /\ pathToSwitchTo' = 0
  /\ UNCHANGED <<paths, pathsToProbe, activePath, app, sched, idFor, ids, retired, net, losses>>

Prober(p) == ProbeValidated(p) \/ ProbeSent(p) \/ ProbeTimeout(p) \/ ProbeAbandoned(p)

QNext ==
  \/ \E p \in Paths : Probe(p) \/ Prober(p) \/ ProbeCancelled(p) \/ ClosePath(p) \/ Switch(p)
  \/ SendProbe \/ SwitchToNewPath
  \/ \E x \in net : HandlePathResponse(x) \/ LoseProbe(x)

---------------------------------------------------------------------------
\* The path the connection uses, or is about to use, was validated and has not
\* been closed: "ErrPathClosed is returned when trying to switch to a path that
\* has been closed", "It is not possible to close the path that's currently
\* active", "After closing, it is not possible to probe this path again".
ActivePathOpen ==
  /\ activePath # 0 => /\ activePath \notin abandon
                       /\ paths[activePath].exists /\ paths[activePath].isValidated
  /\ activePath # current => pathToSwitchTo = activePath

\* A call to Probe can go on: its path answered or was closed, or its timer runs
\* with no probe under way.
ProberReady(p) ==
  /\ prober[p].pc = "wait"
  /\ \/ p \in abandon \/ paths[p].closed \/ paths[p].sent
     \/ prober[p].timer /\ p \notin ToSet(pathsToProbe) /\ ~\E x \in net : x.path = p

\* Probe returns: a path that answers is validated, one that is closed ends the
\* call, and lost probes are sent again.  When nothing is left to be done by the
\* run loop, the network, or a goroutine, no call waits.
ProbeReturns ==
  \/ sched \/ net # {}
  \/ \E p \in Paths : ProberReady(p) \/ closer[p] = "removed"
  \/ \A p \in Paths : prober[p].pc # "wait"
=============================================================================
