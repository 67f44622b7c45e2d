----------------------------- MODULE MoqtMessages -----------------------------
(***************************************************************************)
(* The messages of a MOQT control stream as they are written and parsed    *)
(* (moqt/wire), along the path from a peer through the relay to the next   *)
(* peer: WriteControlMessage and ServeCS at each hop, and the messages a   *)
(* relay writes again under another subscription ID.                       *)
(*                                                                         *)
(* The stream is a sequence of items: integers (varints), message types,   *)
(* single bytes and the contents of strings, with their lengths before     *)
(* them.  Who is sent which message, and when, is the business of          *)
(* MoqtRelay.                                                              *)
(***************************************************************************)
EXTENDS Integers, Sequences, FiniteSets

CONSTANTS
  Messages,   \* the messages a peer may send
  NameLen,    \* length of the strings in them
  MaxSent     \* bound on messages sent

VARIABLES
  sent,     \* messages the peer wrote
  up,       \* control stream from the peer to the relay: items not yet read
  handled,  \* messages the relay parsed
  written,  \* indexes of handled messages it wrote again, in that order
  down,     \* control stream from the relay to the next peer
  heard,    \* messages that peer parsed
  broken    \* the peer's stream ended early

msgVars == <<sent, up, handled, written, down, heard, broken>>

ROLE_PARAM == 0
ROLE_PATH == 1
LatestGroup == 1
AbsoluteStart == 3
AbsoluteRange == 4

Varint(n) == [t |-> "int", v |-> n]
Byte(n) == [t |-> "byte", v |-> n]
Str(s) == IF s = "" THEN <<Varint(0)>> ELSE <<Varint(NameLen[s]), [t |-> "str", v |-> s]>>

\* Absent parameters are an empty map.
NoParams == [k \in {} |-> 0]

----------------------------------------------------------------------------
\* GetBytes

\* quicvarint.Len of the roles
IntParameterBytes(ptype, value) == <<Varint(ptype), Varint(1), Varint(value)>>
StringParameterBytes(ptype, value) == <<Varint(ptype)>> \o Str(value)

ParameterBytes(params, k) ==
  IF k = ROLE_PARAM THEN IntParameterBytes(k, params[k]) ELSE StringParameterBytes(k, params[k])

\* Parameters are a Go map: they are written in any order.
ParamsBytes(params) ==
  LET n == Cardinality(DOMAIN params)
      orders == {o \in [1..n -> DOMAIN params] : \A i, j \in 1..n : o[i] = o[j] => i = j}
      bytes(o) == IF n = 0 THEN <<>> ELSE IF n = 1 THEN ParameterBytes(params, o[1])
                  ELSE ParameterBytes(params, o[1]) \o ParameterBytes(params, o[2])
  IN  {<<Varint(n)>> \o bytes(o) : o \in orders}

ClientSetupBytes(m) ==
  LET n == Len(m.SupportedVersions)
      versions == [i \in 1..n |-> Varint(m.SupportedVersions[i])]
  IN  {<<Varint(n)>> \o versions \o p : p \in ParamsBytes(m.Params)}

ServerSetupBytes(m) == {<<Varint(m.SelectedVersion)>> \o p : p \in ParamsBytes(m.Params)}
AnnounceBytes(m) == {Str(m.TrackNameSpace) \o p : p \in ParamsBytes(m.Params)}
AnnounceOkBytes(m) == {Str(m.TrackNameSpace)}

SubscribeBytes(m) ==
  LET start == IF m.FilterType \in {AbsoluteStart, AbsoluteRange}
               THEN <<Varint(m.StartGroup), Varint(m.StartObject)>> ELSE <<>>
      end == IF m.FilterType = AbsoluteRange THEN <<Varint(m.EndGroup), Varint(m.EndObject)>> ELSE <<>>
  IN  {<<Varint(m.SubscribeID), Varint(m.TrackAlias)>> \o Str(m.TrackNameSpace) \o Str(m.TrackName)
         \o <<Varint(m.FilterType)>> \o start \o end \o p : p \in ParamsBytes(m.Params)}

SubscribeOkBytes(m) ==
  {<<Varint(m.SubscribeID), Varint(m.Expires), Byte(m.ContentExists)>>
     \o IF m.ContentExists = 1 THEN <<Varint(m.largestObjectId), Varint(m.largestGroupId)>> ELSE <<>>}

UnsubscribeBytes(m) == {<<Varint(m.SubscriptionID)>>}

\* The body of a message, after its type
Body(m) ==
  CASE m.kind = "CLIENT_SETUP" -> ClientSetupBytes(m)
    [] m.kind = "SERVER_SETUP" -> ServerSetupBytes(m)
    [] m.kind = "ANNOUNCE" -> AnnounceBytes(m)
    [] m.kind = "ANNOUNCE_OK" -> AnnounceOkBytes(m)
    [] m.kind = "SUBSCRIBE" -> SubscribeBytes(m)
    [] m.kind = "SUBSCRIBE_OK" -> SubscribeOkBytes(m)
    [] m.kind = "UNSUBSCRIBE" -> UnsubscribeBytes(m)

Type(kind) == [t |-> "type", v |-> kind]

GetBytes(m) == {<<Type(m.kind)>> \o b : b \in Body(m)}

----------------------------------------------------------------------------
\* Parse: a reader has the items left, the values read, and is ok until a read
\* fails.  What was not read has the zero value.

Reader(in) == [in |-> in, vals |-> <<>>, ok |-> TRUE]

Read(r) ==
  IF r.ok /\ r.in # <<>> THEN [r EXCEPT !.in = Tail(@), !.vals = Append(@, Head(r.in).v)]
  ELSE [r EXCEPT !.ok = FALSE]

ParseVarIntString(r) ==
  LET len == Read(r)
      str == Read(len)
  IN  CASE len.ok /\ len.vals[Len(len.vals)] = 0 -> [len EXCEPT !.vals = Append(r.vals, "")]
        [] len.ok /\ len.vals[Len(len.vals)] # 0 /\ str.ok /\ Head(len.in).t = "str" ->
             [str EXCEPT !.vals = Append(r.vals, Head(len.in).v)]
        [] OTHER -> [str EXCEPT !.ok = FALSE, !.vals = r.vals]

Val(r, i, zero) == IF i <= Len(r.vals) THEN r.vals[i] ELSE zero

\* Parameters.Parse: the reader after the map, and the map
ParseParameter(acc) ==
  LET ptype == Read(acc.r)
      k == IF ptype.ok THEN ptype.vals[Len(ptype.vals)] ELSE ROLE_PARAM
      read == IF k = ROLE_PARAM THEN Read(Read(ptype)) ELSE ParseVarIntString(ptype)
  IN  IF ~ptype.ok \/ ~read.ok THEN [acc EXCEPT !.r = [read EXCEPT !.ok = FALSE]]
      ELSE [r |-> read, params |-> [x \in DOMAIN acc.params \cup {k} |->
                                      IF x = k THEN read.vals[Len(read.vals)] ELSE acc.params[x]]]

ParseRest(acc, n) == IF n = 1 \/ ~acc.r.ok THEN acc ELSE ParseParameter(acc)

ParseParams(r) ==
  LET length == Read(r)
      n == IF length.ok THEN length.vals[Len(length.vals)] ELSE 0
      none == [r |-> length, params |-> NoParams]
  IN  IF n = 0 THEN none ELSE ParseRest(ParseParameter(none), n)

RECURSIVE ReadN(_, _)
ReadN(r, n) == IF n = 0 \/ ~r.ok THEN r ELSE ReadN(Read(r), n - 1)

\* An error in the parameters of a setup message is ignored; in the others the
\* message is left without parameters.
ParseClientSetup(r) ==
  LET n == Read(r)
      versions == ReadN(n, Val(n, 1, 0))
      p == ParseParams(versions)
  IN  [r |-> p.r, m |-> [kind |-> "CLIENT_SETUP",
                         SupportedVersions |-> SubSeq(versions.vals, 2, Len(versions.vals)),
                         Params |-> IF versions.ok THEN p.params ELSE NoParams]]

ParseServerSetup(r) ==
  LET v == Read(r)
      p == ParseParams(v)
  IN  [r |-> p.r, m |-> [kind |-> "SERVER_SETUP", SelectedVersion |-> Val(v, 1, 0),
                         Params |-> IF v.ok THEN p.params ELSE NoParams]]

ParseAnnounce(r) ==
  LET ns == ParseVarIntString(r)
      p == ParseParams(ns)
  IN  [r |-> p.r, m |-> [kind |-> "ANNOUNCE", TrackNameSpace |-> Val(ns, 1, ""),
                         Params |-> IF p.r.ok THEN p.params ELSE NoParams]]

ParseAnnounceOk(r) ==
  LET ns == ParseVarIntString(r)
  IN  [r |-> ns, m |-> [kind |-> "ANNOUNCE_OK", TrackNameSpace |-> Val(ns, 1, "")]]

ParseSubscribe(r) ==
  LET filter == Read(ParseVarIntString(ParseVarIntString(Read(Read(r)))))
      type == Val(filter, 5, 0)
      body == ReadN(filter, CASE type = AbsoluteStart -> 2 [] type = AbsoluteRange -> 4 [] OTHER -> 0)
      p == ParseParams(body)
  IN  [r |-> p.r,
       m |-> [kind |-> "SUBSCRIBE", SubscribeID |-> Val(body, 1, 0), TrackAlias |-> Val(body, 2, 0),
              TrackNameSpace |-> Val(body, 3, ""), TrackName |-> Val(body, 4, ""), FilterType |-> type,
              StartGroup |-> Val(body, 6, 0), StartObject |-> Val(body, 7, 0),
              EndGroup |-> Val(body, 8, 0), EndObject |-> Val(body, 9, 0),
              Params |-> IF p.r.ok THEN p.params ELSE NoParams]]

\* A parser that does not read the optional fields
ParseSubscribeOk_bug(r) ==
  LET exists == Read(Read(Read(r)))
  IN  [r |-> exists,
       m |-> [kind |-> "SUBSCRIBE_OK", SubscribeID |-> Val(exists, 1, 0), Expires |-> Val(exists, 2, 0),
              ContentExists |-> Val(exists, 3, 0), largestGroupId |-> 0, largestObjectId |-> 0]]

\* Both of the optional fields are read into largestObjectId.
ParseSubscribeOk(r) ==
  LET exists == Read(Read(Read(r)))
      body == IF Val(exists, 3, 0) = 1 THEN Read(Read(exists)) ELSE exists
  IN  [r |-> body,
       m |-> [kind |-> "SUBSCRIBE_OK", SubscribeID |-> Val(body, 1, 0), Expires |-> Val(body, 2, 0),
              ContentExists |-> Val(body, 3, 0), largestGroupId |-> 0,
              largestObjectId |-> Val(body, 5, Val(body, 4, 0))]]

ParseUnsubscribe(r) ==
  LET id == Read(r)
  IN  [r |-> id, m |-> [kind |-> "UNSUBSCRIBE", SubscriptionID |-> Val(id, 1, 0)]]

\* ParseMOQTMessage ignores the error of the message's Parse.
ParseMOQTMessage(in) ==
  LET kind == IF Head(in).t = "type" THEN Head(in).v ELSE "unknown"
      r == Reader(Tail(in))
  IN  CASE kind = "CLIENT_SETUP" -> ParseClientSetup(r)
        [] kind = "SERVER_SETUP" -> ParseServerSetup(r)
        [] kind = "ANNOUNCE" -> ParseAnnounce(r)
        [] kind = "ANNOUNCE_OK" -> ParseAnnounceOk(r)
        [] kind = "SUBSCRIBE" -> ParseSubscribe(r)
        [] kind = "SUBSCRIBE_OK" -> ParseSubscribeOk(r)
        [] kind = "UNSUBSCRIBE" -> ParseUnsubscribe(r)
        [] OTHER -> [r |-> [r EXCEPT !.in = <<>>, !.ok = FALSE], m |-> [kind |-> "unknown"]]

----------------------------------------------------------------------------
MMInit ==
  /\ sent = <<>> /\ up = <<>> /\ handled = <<>> /\ written = <<>>
  /\ down = <<>> /\ heard = <<>> /\ broken = FALSE

\* WriteControlMessage
WriteControlMessage(m) ==
  /\ Len(sent) < MaxSent /\ ~broken
  /\ sent' = Append(sent, m)
  /\ \E b \in GetBytes(m) : up' = up \o b
  /\ UNCHANGED <<handled, written, down, heard, broken>>

\* The peer's connection ends: what was not delivered is lost.
Break ==
  /\ ~broken /\ broken' = TRUE
  /\ \E n \in 0 .. Len(up) : up' = SubSeq(up, 1, n)
  /\ UNCHANGED <<sent, handled, written, down, heard>>

\* ServeCS of the relay: the reader waits for the rest of a message as long as
\* the stream is open.
ServeCS ==
  /\ up # <<>>
  /\ \E parsed \in {ParseMOQTMessage(up)} :
        /\ up' = parsed.r.in
        /\ handled' = Append(handled, parsed.m)
  /\ UNCHANGED <<sent, written, down, heard, broken>>

\* SendSubscribe, SendSubscribeOk: a message goes on under the subscription ID
\* of the other side.
NewID(id) == id + 10

Forward(i) ==
  /\ handled[i].kind \in {"SUBSCRIBE", "SUBSCRIBE_OK"}
  /\ \A j \in DOMAIN written : written[j] # i
  /\ written' = Append(written, i)
  /\ \E b \in GetBytes([handled[i] EXCEPT !.SubscribeID = NewID(@)]) : down' = down \o b
  /\ UNCHANGED <<sent, up, handled, heard, broken>>

Hear ==
  /\ down # <<>>
  /\ \E parsed \in {ParseMOQTMessage(down)} :
        /\ down' = parsed.r.in
        /\ heard' = Append(heard, parsed.m)
  /\ UNCHANGED <<sent, up, handled, written, broken>>

MMNext ==
  \/ \E m \in Messages : WriteControlMessage(m)
  \/ Break \/ ServeCS \/ Hear
  \/ \E i \in DOMAIN handled : Forward(i)

----------------------------------------------------------------------------
\* A message as another hop sees it
Renumbered(m) == [m EXCEPT !.SubscribeID = NewID(@)]

\* Control streams stay in step: the n-th message a relay handles is the n-th
\* the peer sent, whatever the order of its parameters and the fields its kind
\* leaves out, only the last one of a broken stream may be torn; and what the
\* relay writes again reaches the next peer unchanged but for the ID.
ControlInStep ==
  /\ Len(handled) <= Len(sent)
  /\ \A i \in DOMAIN handled :
       handled[i] = sent[i] \/ (broken /\ i = Len(handled) /\ up = <<>>)
  /\ \A i \in DOMAIN heard : heard[i] = Renumbered(handled[written[i]])
=============================================================================
