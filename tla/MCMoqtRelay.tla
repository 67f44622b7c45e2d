---------------------------- MODULE MCMoqtRelay ----------------------------
(***************************************************************************)
(* The relay, the sessions with it, the applications at its two ends and the *)
(* messages on the control streams between them.  A behaviour is one of the  *)
(* relay's handlers (MoqtRelay), of sessions that are set up (MoqtSession),  *)
(* of a publisher and a subscriber (MoqtClients), or of control messages      *)
(* written and parsed (MoqtMessages).                                      *)
(***************************************************************************)
EXTENDS MoqtRelay, MoqtSession

CONSTANTS
    Parts,                             \* the parts to run
    p1, p2, s1, s2, live, catalog, n1, \* MoqtRelay
    MainSub, HeardSub, MaxPubGroups, MaxUni, \* MoqtClients
    OkIds, MaxSent                     \* MoqtMessages

VARIABLES
    part,
    pub, sub, subscribing, toPub, toSub, uni, waiting, handed, read, lost,
    spoken, upstream, handled, written, downstream, parsed, broken

-----------------------------------------------------------------------------
(* Two publishers and two subscribers of the relay, in three casts that bound *)
(* what the peers do (never what the relay does).                           *)

MCNsOf == [t \in Tracks |-> n1]

\* Two subscribers ask for one track of one publisher; one of them may close.
Sharing == [present |-> {p1, s1, s2}, closers |-> {s1}, wants |-> {s1, s2} \X {1} \X {live}]

\* One subscriber asks for two tracks, cached or not; both sessions may close.
TwoTracks == [present |-> {p1, s1}, closers |-> {p1, s1}, wants |-> {s1} \X SubIDs \X Tracks]

\* Two publishers announce the same namespace; the first may close.
Takeover == [present |-> {p1, p2, s1}, closers |-> {p1}, wants |-> {<<s1, 1, live>>}]

MCCasts == {Sharing, TwoTracks, Takeover}

-----------------------------------------------------------------------------
(* Every kind of message, with and without its optional fields.             *)

NameLen == [n \in {"live", "cam", "/p"} |-> IF n = "live" THEN 4 ELSE IF n = "cam" THEN 3 ELSE 2]

Role == 0
Path == 1
Params == {[k \in {} |-> 0], [k \in {Role} |-> 2],
           [k \in {Role, Path} |-> IF k = Role THEN 1 ELSE "/p"]}

SetupMessages ==
    [kind : {"CLIENT_SETUP"}, SupportedVersions : {<<4>>, <<3, 4>>}, Params : Params]
        \cup [kind : {"SERVER_SETUP"}, SelectedVersion : {4}, Params : Params]

SubscribeMessages ==
    {[kind |-> "SUBSCRIBE", SubscribeID |-> 5, TrackAlias |-> 6, TrackNameSpace |-> "live",
      TrackName |-> "cam", FilterType |-> f, Params |-> [k \in {} |-> 0],
      StartGroup |-> IF f >= 3 THEN 7 ELSE 0, StartObject |-> IF f >= 3 THEN 8 ELSE 0,
      EndGroup |-> IF f = 4 THEN 9 ELSE 0, EndObject |-> IF f = 4 THEN 2 ELSE 0] : f \in 1 .. 4}

SubscribeOkMessages ==
    [kind : {"SUBSCRIBE_OK"}, SubscribeID : {5}, Expires : {1024}, ContentExists : {0},
     largestGroupId : {0}, largestObjectId : {0}]
        \cup [kind : {"SUBSCRIBE_OK"}, SubscribeID : {5}, Expires : {0}, ContentExists : {1},
              largestGroupId : OkIds, largestObjectId : OkIds]

OtherMessages ==
    [kind : {"ANNOUNCE"}, TrackNameSpace : {"live"}, Params : Params]
        \cup [kind : {"ANNOUNCE_OK"}, TrackNameSpace : {"live"}]
        \cup [kind : {"UNSUBSCRIBE"}, SubscriptionID : {5}]

Messages == SetupMessages \cup SubscribeMessages \cup SubscribeOkMessages \cup OtherMessages

-----------------------------------------------------------------------------
(* The parts.                                                              *)

\* A publisher and a subscriber dial a relay, or a listening publisher.
MCClients == {p1, s1}
MCRoleOf == [c \in MCClients |-> IF c = s1 THEN "sub" ELSE "pub"]

Ends == INSTANCE MoqtClients WITH MaxGroups <- MaxPubGroups
Control == INSTANCE MoqtMessages
    WITH sent <- spoken, up <- upstream, down <- downstream, heard <- parsed

relay == <<peers, vars>>
ends == <<pub, sub, subscribing, toPub, toSub, uni, waiting, handed, read, lost>>
control == <<spoken, upstream, handled, written, downstream, parsed, broken>>
setup == <<ServerRole, svars>>

\* All parts are initialised, one runs.
MCInit ==
    /\ part \in Parts
    /\ Init /\ SInit /\ Ends!OCInit /\ Control!MMInit
    /\ part # "relay" => peers = Sharing
    /\ part # "session" => ServerRole = "relay"

MCNext ==
    /\ UNCHANGED part
    /\ \/ part = "relay" /\ Next /\ UNCHANGED <<setup, ends, control>>
       \/ part = "session" /\ SNext /\ UNCHANGED <<relay, ends, control>>
       \/ part = "ends" /\ Ends!OCNext /\ UNCHANGED <<relay, setup, control>>
       \/ part = "control" /\ Control!MMNext /\ UNCHANGED <<relay, setup, ends>>

MCSpec == MCInit /\ [][MCNext]_<<part, relay, setup, ends, control>>

-----------------------------------------------------------------------------
\* Nothing is waited for in vain.  The relay's goroutines end with every handler returned
\* (HandlersReturn), and when no goroutine has anything left to do, a subscriber has been told of
\* every announcement the relay wrote to it after Dial gave it a session.
NothingWaits == HandlersReturn /\ AnnouncementHeard

\* The two applications find each other's messages and streams: at the end every subscription
\* that the publisher accepted has been given its SubStream and every group it wrote has been
\* read, except where one of the documented orders lost a message or a stream.
ClientsServed == Ends!ClientsServed

\* Both ends of a control stream stay in step: what the relay parses and writes again is what the
\* peer wrote, message by message, whatever optional fields there are and wherever the stream ends.
\* The two ids of a SUBSCRIBE_OK with content are 0 (OkIds = {0}): the parser reads both into
\* largestObjectId, so that others come out changed.
ControlInStep == Control!ControlInStep
=============================================================================
