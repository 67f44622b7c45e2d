--------------------------- MODULE SessionProofs ---------------------------
(***************************************************************************)
(* For any clients that publish or subscribe: what a session is when Dial   *)
(* returns it, on which streams a relay writes announcements, how often     *)
(* HandleClose runs, and that no handshake is left half done.               *)
(***************************************************************************)
EXTENDS MoqtSession, TLAPS

Messages == {"client_setup", "server_setup", "announce", "announce_ok"}
Points == {"none", "read", "reject", "done", "reply", "announce", "ended"}

\* The side's session has been told its peer's role.
Got(side, c) == role[side][c] # "none"

\* m is among the messages of s.
Holds(s, m) == \E i \in 1 .. Len(s) : s[i] = m

\* ServeCS of a session runs on its control stream and passes through the handshake once.
ServeInv(side, c) ==
    /\ serve[side][c] # "none" => cs[side][c]
    /\ Got(side, c) => cs[side][c] /\ role[side][c] = LocalRole(Peer(side), c)
    /\ chan[side][c] = 1 => done[side][c]
    /\ done[side][c] => Got(side, c)
    /\ serve[side][c] \in {"reject", "done"} => Got(side, c) /\ ~done[side][c]
    /\ serve[side][c] = "reject" => RoleError(side, c)
    /\ Got(side, c) /\ ~done[side][c] /\ up[c] => serve[side][c] \in {"reject", "done"}
    /\ cs[side][c] /\ up[c] => serve[side][c] \notin {"none", "ended"}

\* The client: Dial waits for the handshake, and InitiateHandshake opens the stream once.
ClientInv(c) ==
    /\ serve["client"][c] # "reply"
    /\ serve["client"][c] = "announce" => done["client"][c]
    /\ dial[c] = "session" => done["client"][c]
    /\ dial[c] = "start" <=> opener[c] = "none"
    /\ opener[c] \in {"none", "open"} => ~cs["client"][c]
    /\ up[c] /\ opener[c] \in {"setup", "ended"} => cs["client"][c]
    /\ ServerRole = "relay" =>
          closes["client"][c] = 0 \/ (closes["client"][c] = 1 /\ opener[c] = "ended")

\* The server: it answers a finished handshake, and closes when it stops accepting.
ServerInv(c) ==
    /\ serve["server"][c] # "announce"
    /\ serve["server"][c] = "reply" => done["server"][c]
    /\ writers[c] > 0 => cs["server"][c]
    /\ accept[c] = "none" => ~cs["server"][c]
    /\ accept[c] = "ended" => ~up[c]
    /\ ServerRole = "relay" =>
          closes["server"][c] = 0 \/ (closes["server"][c] = 1 /\ accept[c] = "ended")

\* From client to server: a CLIENT_SETUP, and announcements of a session that Dial gave out.
UpInv(c) ==
    /\ ~Holds(stream["client"][c], "server_setup") /\ ~Holds(stream["client"][c], "announce_ok")
    /\ Holds(stream["client"][c], "announce") => dial[c] = "session"
    /\ Holds(stream["client"][c], "client_setup") \/ Got("server", c) => opener[c] = "ended"
    /\ up[c] /\ opener[c] = "ended" =>
          Got("server", c) \/ Holds(stream["client"][c], "client_setup")

\* From server to client: SERVER_SETUP after the server's handshake, announcements at any time.
DownInv(c) ==
    /\ ~Holds(stream["server"][c], "client_setup")
    /\ Holds(stream["server"][c], "announce_ok") => done["client"][c]
    /\ Holds(stream["server"][c], "server_setup") \/ Got("client", c) => done["server"][c]
    /\ up[c] /\ done["server"][c] /\ serve["server"][c] # "reply" =>
          Got("client", c) \/ Holds(stream["server"][c], "server_setup")

PInv(c) ==
    /\ ServeInv("client", c) /\ ServeInv("server", c)
    /\ ClientInv(c) /\ ServerInv(c) /\ UpInv(c) /\ DownInv(c)

\* The inductive invariant of the sessions.
SInv == STypeOK /\ \A c \in Clients : PInv(c)

\* A client is a publisher or a subscriber.
Roles == RoleOf \in [Clients -> {"pub", "sub"}]

\* What Append and Tail do to the messages that are held.
LEMMA HoldsLemma ==
  ASSUME NEW s \in Seq(Messages), NEW n \in Messages
  PROVE  /\ \A m \in Messages : Holds(Append(s, m), n) <=> Holds(s, n) \/ n = m
         /\ s # <<>> => (Holds(s, n) <=> Holds(Tail(s), n) \/ n = Head(s))
  <1>1. ASSUME NEW m \in Messages PROVE Holds(Append(s, m), n) <=> Holds(s, n) \/ n = m
    <2>1. /\ Len(s) \in Nat /\ Len(Append(s, m)) = Len(s) + 1 /\ Append(s, m)[Len(s) + 1] = m
          /\ \A i \in 1 .. Len(s) : Append(s, m)[i] = s[i]
      OBVIOUS
    <2> QED
      BY <2>1 DEF Holds
  <1>2. ASSUME s # <<>> PROVE Holds(s, n) <=> Holds(Tail(s), n) \/ n = Head(s)
    <2>1. /\ Len(s) \in Nat /\ Len(s) >= 1 /\ Len(Tail(s)) = Len(s) - 1 /\ Head(s) = s[1]
          /\ \A i \in 1 .. Len(s) - 1 : Tail(s)[i] = s[i + 1]
      BY <1>2
    <2>2. ASSUME NEW i \in 1 .. Len(s), s[i] = n PROVE Holds(Tail(s), n) \/ n = Head(s)
      <3>1. CASE i = 1
        BY <3>1, <2>1, <2>2, Zenon
      <3>2. CASE i # 1
        <4>1. i - 1 \in 1 .. Len(Tail(s)) /\ Tail(s)[i - 1] = n
          BY <3>2, <2>1, <2>2
        <4> QED
          BY <4>1, Zenon DEF Holds
      <3> QED
        BY <3>1, <3>2, Zenon
    <2>3. ASSUME NEW i \in 1 .. Len(Tail(s)), Tail(s)[i] = n PROVE Holds(s, n)
      <3>1. i + 1 \in 1 .. Len(s) /\ s[i + 1] = n
        BY <2>1, <2>3
      <3> QED
        BY <3>1, Zenon DEF Holds
    <2>4. n = Head(s) => Holds(s, n)
      BY <2>1 DEF Holds
    <2> QED
      BY <2>2, <2>3, <2>4, Zenon DEF Holds
  <1> QED
    BY <1>1, <1>2, Zenon

\* An assignment to one field of one session changes that field only.
LEMMA PutLemma ==
  ASSUME NEW S, NEW f \in [Sides -> [Clients -> S]], NEW side \in Sides, NEW c \in Clients,
         NEW v \in S
  PROVE  LET g == [f EXCEPT ![side][c] = v]
         IN  /\ g \in [Sides -> [Clients -> S]]
             /\ g[side][c] = v
             /\ \A x \in Sides, d \in Clients : x # side \/ d # c => g[x][d] = f[x][d]
  BY Zenon

\* The messages.
LEMMA Members ==
  /\ "client_setup" \in Messages /\ "server_setup" \in Messages
  /\ "announce" \in Messages /\ "announce_ok" \in Messages
  BY Zenon DEF Messages

\* What WriteControlMessage does to the control streams.
LEMMA WriteLemma ==
  ASSUME STypeOK, NEW side \in Sides, NEW c \in Clients, NEW m \in Messages, Write(side, c, m)
  PROVE  /\ stream' \in [Sides -> [Clients -> Seq(Messages)]]
         /\ \A n \in Messages :
               Holds(stream'[side][c], n) <=> Holds(stream[side][c], n) \/ (up[c] /\ n = m)
         /\ \A x \in Sides, d \in Clients : x # side \/ d # c => stream'[x][d] = stream[x][d]
  <1>1. stream \in [Sides -> [Clients -> Seq(Messages)]]
    BY Zenon DEF STypeOK, Messages
  <1>2. Append(stream[side][c], m) \in Seq(Messages)
    BY <1>1
  <1>3. /\ stream' \in [Sides -> [Clients -> Seq(Messages)]]
        /\ stream'[side][c] = IF up[c] THEN Append(stream[side][c], m) ELSE stream[side][c]
        /\ \A x \in Sides, d \in Clients : x # side \/ d # c => stream'[x][d] = stream[x][d]
    BY <1>1, <1>2, PutLemma DEF Write
  <1>4. stream[side][c] \in Seq(Messages)
    BY <1>1, Zenon
  <1>5. ASSUME NEW n \in Messages
        PROVE  Holds(Append(stream[side][c], m), n) <=> Holds(stream[side][c], n) \/ n = m
    BY <1>4, HoldsLemma, Zenon
  <1> QED
    BY <1>3, <1>5, Zenon

\* What ServeCS does to the control streams when it reads m.
LEMMA ReadLemma ==
  ASSUME STypeOK, NEW side \in Sides, NEW c \in Clients, NEW m \in Messages, Read(side, c, m),
         NEW peer, peer = Peer(side)
  PROVE  /\ stream' \in [Sides -> [Clients -> Seq(Messages)]]
         /\ up[c] /\ serve[side][c] = "read"
         /\ \A n \in Messages :
               Holds(stream[peer][c], n) <=> Holds(stream'[peer][c], n) \/ n = m
         /\ \A x \in Sides, d \in Clients : x = side \/ d # c => stream'[x][d] = stream[x][d]
  <1>1. stream \in [Sides -> [Clients -> Seq(Messages)]]
    BY Zenon DEF STypeOK, Messages
  <1>2. peer \in Sides /\ \A x \in Sides : x = side => x # peer
    BY Zenon DEF Peer, Sides
  <1>3. /\ stream[peer][c] # <<>> /\ Head(stream[peer][c]) = m
        /\ up[c] /\ serve[side][c] = "read"
    BY Zenon DEF Read
  <1>4. Tail(stream[peer][c]) \in Seq(Messages)
    BY <1>1, <1>2, <1>3
  <1>5. /\ stream' \in [Sides -> [Clients -> Seq(Messages)]]
        /\ stream'[peer][c] = Tail(stream[peer][c])
        /\ \A x \in Sides, d \in Clients : x # peer \/ d # c => stream'[x][d] = stream[x][d]
    BY <1>1, <1>2, <1>4, PutLemma DEF Read
  <1>6. stream[peer][c] \in Seq(Messages)
    BY <1>1, <1>2, Zenon
  <1>7. ASSUME NEW n \in Messages
        PROVE  Holds(stream[peer][c], n) <=> Holds(Tail(stream[peer][c]), n) \/ n = m
    BY <1>3, <1>6, HoldsLemma, Zenon
  <1>8. \A x \in Sides, d \in Clients : x = side \/ d # c => stream'[x][d] = stream[x][d]
    BY <1>2, <1>5, Zenon
  <1> QED
    BY <1>3, <1>5, <1>7, <1>8, Zenon

\* ServeCS of one session moves on, the others stay where they are.
LEMMA GotoLemma ==
  ASSUME STypeOK, NEW side \in Sides, NEW c \in Clients, NEW pc \in Points, Goto(side, c, pc)
  PROVE  /\ serve' \in [Sides -> [Clients -> Points]]
         /\ serve'[side][c] = pc
         /\ \A x \in Sides, d \in Clients : x # side \/ d # c => serve'[x][d] = serve[x][d]
  <1>1. serve \in [Sides -> [Clients -> Points]]
    BY Zenon DEF STypeOK, Points
  <1> QED
    BY <1>1, PutLemma DEF Goto

\* Close marks the connection, counts HandleClose and drops the session.
LEMMA CloseLemma ==
  ASSUME STypeOK, NEW side \in Sides, NEW c \in Clients, CloseSession(side, c)
  PROVE  /\ up' \in [Clients -> BOOLEAN] /\ up'[c] = FALSE
         /\ \A d \in Clients : d # c => up'[d] = up[d]
         /\ closes' \in [Sides -> [Clients -> Nat]]
         /\ closes'[side][c] = closes[side][c] + 1
         /\ \A x \in Sides, d \in Clients : x # side \/ d # c => closes'[x][d] = closes[x][d]
         /\ sessions' \subseteq Clients
  <1>1. closes \in [Sides -> [Clients -> Nat]]
    BY Zenon DEF STypeOK
  <1>2. closes[side][c] + 1 \in Nat
    BY <1>1
  <1>3. closes' = [closes EXCEPT ![side][c] = closes[side][c] + 1]
    BY Zenon DEF CloseSession
  <1>4. /\ closes' \in [Sides -> [Clients -> Nat]]
        /\ closes'[side][c] = closes[side][c] + 1
        /\ \A x \in Sides, d \in Clients : x # side \/ d # c => closes'[x][d] = closes[x][d]
    BY <1>1, <1>2, <1>3, PutLemma
  <1>5. up' \in [Clients -> BOOLEAN] /\ up'[c] = FALSE /\ \A d \in Clients : d # c => up'[d] = up[d]
    BY Zenon DEF STypeOK, CloseSession
  <1> QED
    BY <1>4, <1>5, Zenon DEF STypeOK, CloseSession

\* What HandleAnnounce does to the control streams.
LEMMA AnnounceLemma ==
  ASSUME STypeOK, NEW c \in Clients, SessionHandleAnnounce(c)
  PROVE  /\ stream' \in [Sides -> [Clients -> Seq(Messages)]]
         /\ \A n \in Messages :
               /\ Holds(stream["client"][c], n) <=> Holds(stream'["client"][c], n) \/ n = "announce"
               /\ Holds(stream'["server"][c], n) <=> Holds(stream["server"][c], n) \/ n = "announce_ok"
         /\ \A x \in Sides, d \in Clients : d # c => stream'[x][d] = stream[x][d]
  <1>a. "client" \in Sides /\ "server" \in Sides
    BY Zenon DEF Sides
  <1> DEFINE f == [stream EXCEPT !["client"][c] = Tail(stream["client"][c])]
  <1>1. stream \in [Sides -> [Clients -> Seq(Messages)]]
    BY Zenon DEF STypeOK, Messages
  <1>2. stream["client"][c] # <<>> /\ Head(stream["client"][c]) = "announce"
    BY Zenon DEF SessionHandleAnnounce
  <1>3. Tail(stream["client"][c]) \in Seq(Messages)
    BY <1>a, <1>1, <1>2
  <1>4. /\ f \in [Sides -> [Clients -> Seq(Messages)]]
        /\ f["client"][c] = Tail(stream["client"][c])
        /\ \A x \in Sides, d \in Clients : x # "client" \/ d # c => f[x][d] = stream[x][d]
    BY <1>a, <1>1, <1>3, PutLemma
  <1>5. Append(f["server"][c], "announce_ok") \in Seq(Messages)
    BY <1>a, <1>4 DEF Messages
  <1>6. stream' = [f EXCEPT !["server"][c] = Append(f["server"][c], "announce_ok")]
    BY Zenon DEF SessionHandleAnnounce
  <1> HIDE DEF f
  <1>7. f \in [Sides -> [Clients -> Seq(Messages)]]
    BY <1>4, Zenon
  <1>8. /\ stream' \in [Sides -> [Clients -> Seq(Messages)]]
        /\ stream'["server"][c] = Append(f["server"][c], "announce_ok")
        /\ \A x \in Sides, d \in Clients : x # "server" \/ d # c => stream'[x][d] = f[x][d]
    BY <1>a, <1>5, <1>6, <1>7, PutLemma
  <1>9. \A x \in Sides, d \in Clients : d # c => stream'[x][d] = stream[x][d]
    BY <1>4, <1>8, Zenon
  <1>10. /\ stream'["client"][c] = Tail(stream["client"][c])
         /\ stream'["server"][c] = Append(stream["server"][c], "announce_ok")
    BY <1>a, <1>4, <1>8, Zenon
  <1>11. stream["client"][c] \in Seq(Messages) /\ stream["server"][c] \in Seq(Messages)
    BY <1>a, <1>1, Zenon
  <1>12. ASSUME NEW n \in Messages
         PROVE  /\ Holds(stream["client"][c], n) <=> Holds(Tail(stream["client"][c]), n) \/ n = "announce"
                /\ Holds(Append(stream["server"][c], "announce_ok"), n) <=>
                      Holds(stream["server"][c], n) \/ n = "announce_ok"
    BY <1>2, <1>11, HoldsLemma, Zenon DEF Messages
  <1> QED
    BY <1>8, <1>9, <1>10, <1>12, Zenon

-----------------------------------------------------------------------------
(* A conjunct of the invariant holds on when a step leaves its variables alone. *)

\* A step leaves the two sessions of c as they are, but for announcements that are to be written.
SameOne(c) ==
    /\ up'[c] = up[c] /\ dial'[c] = dial[c] /\ opener'[c] = opener[c] /\ accept'[c] = accept[c]
    /\ writers'[c] = writers[c] \/ Got("server", c)

SameSide(side, c) ==
    /\ serve'[side][c] = serve[side][c] /\ cs'[side][c] = cs[side][c]
    /\ role'[side][c] = role[side][c] /\ done'[side][c] = done[side][c]
    /\ chan'[side][c] = chan[side][c] /\ closes'[side][c] = closes[side][c]
    /\ stream'[side][c] = stream[side][c]

Same(c) == SameOne(c) /\ SameSide("client", c) /\ SameSide("server", c)

\* What an action of client c does: its sessions keep the invariant, the others are the same.
Kept(c) == PInv(c)' /\ \A d \in Clients : d # c => Same(d)

\* The invariant of a client holds on when its sessions are the same.
LEMMA KeepAll ==
  ASSUME NEW c \in Clients, PInv(c), Same(c), UNCHANGED ServerRole
  PROVE  PInv(c)'
  <1>1. writers'[c] = writers[c] \/ cs["server"][c]
    BY Zenon DEF Same, SameOne, PInv, ServeInv
  <1>2. ServeInv("client", c)' /\ ServeInv("server", c)'
    BY DEF Same, SameOne, SameSide, PInv, ServeInv, Got, LocalRole, RoleError
  <1>3. ClientInv(c)' /\ ServerInv(c)'
    BY <1>1 DEF Same, SameOne, SameSide, PInv, ClientInv, ServerInv
  <1>4. UpInv(c)' /\ DownInv(c)'
    BY Zenon DEF Same, SameOne, SameSide, PInv, UpInv, DownInv, Got
  <1> QED
    BY <1>2, <1>3, <1>4, Zenon DEF PInv

\* A session that Dial returned is one that both ends have finished.
LEMMA SessionKnown ==
  ASSUME NEW c \in Clients, PInv(c), dial[c] = "session"
  PROVE  /\ done["client"][c] /\ Got("client", c) /\ done["server"][c] /\ Got("server", c)
         /\ opener[c] = "ended"
  BY Zenon DEF PInv, ClientInv, ServeInv, DownInv, UpInv

\* The sessions start in the invariant.
LEMMA SessionInit == SInit => SInv
  <1> SUFFICES ASSUME SInit PROVE SInv
    BY Zenon
  <1>1. STypeOK
    BY DEF SInit, STypeOK, Each, Sides
  <1>2. ASSUME NEW c \in Clients PROVE PInv(c)
    <2>1. \A side \in Sides, n \in Messages : ~Holds(stream[side][c], n)
      BY DEF Holds, SInit, Each
    <2> QED
      BY <2>1 DEF SInit, PInv, ServeInv, ClientInv, ServerInv, UpInv, DownInv, Got, Each, Sides, Messages
  <1> QED
    BY <1>1, <1>2, Zenon DEF SInv

\* A stream that holds a message has a first one.
LEMMA HeadLemma ==
  ASSUME NEW s \in Seq(Messages), NEW m \in Messages, Holds(s, m)
  PROVE  s # <<>> /\ Head(s) \in Messages /\ Holds(s, Head(s))
  <1>1. s # <<>>
    BY DEF Holds
  <1>2. Head(s) \in Messages
    BY <1>1
  <1> QED
    BY <1>1, <1>2, HoldsLemma, Zenon

\* A client that is up, has dialled and has nothing to do has finished its handshake: its
\* CLIENT_SETUP is read, so the server is done and its SERVER_SETUP is read.
LEMMA SessionQuiet ==
  ASSUME STypeOK, NEW c \in Clients, PInv(c), ~Busy(c), up[c], dial[c] # "start",
         ~done["client"][c]
  PROVE  FALSE
  <1> /\ "client" \in Sides /\ "server" \in Sides
      /\ Peer("client") = "server" /\ Peer("server") = "client"
    BY Zenon DEF Sides, Peer
  <1>2. /\ stream["client"][c] \in Seq(Messages) /\ stream["server"][c] \in Seq(Messages)
        /\ dial[c] \in {"start", "wait", "session", "error"}
        /\ opener[c] \in {"none", "open", "setup", "ended"}
        /\ accept[c] \in {"none", "accept", "ended"}
        /\ serve["client"][c] \in Points /\ serve["server"][c] \in Points
        /\ chan["client"][c] \in {0, 1} /\ chan["server"][c] \in {0, 1}
    BY DEF STypeOK, Messages, Points
  <1>3. /\ opener[c] = "ended" /\ dial[c] # "session" /\ accept[c] = "accept" /\ cs["client"][c]
        /\ ~cs["server"][c] => stream["client"][c] = <<>>
    BY <1>2, Zenon DEF Busy, PInv, ClientInv, ServerInv
  <1>4. ASSUME NEW side \in Sides
        PROVE  /\ serve[side][c] \notin {"reject", "reply"}
               /\ serve[side][c] = "done" => chan[side][c] # 0
               /\ serve[side][c] = "read" => \/ stream[Peer(side)][c] = <<>>
                                             \/ Head(stream[Peer(side)][c]) \notin Handled(side, c)
    BY <1>4, Zenon DEF Busy
  <1>5. serve["client"][c] = "read" /\ ~Got("client", c)
    BY <1>2, <1>3, <1>4, Zenon DEF PInv, ServeInv, ClientInv, Points
  <1>6. Got("server", c)
    <2> SUFFICES ASSUME ~Got("server", c) PROVE FALSE
      BY Zenon
    <2>1. Holds(stream["client"][c], "client_setup")
      BY <1>3, Zenon DEF PInv, UpInv
    <2>2. /\ stream["client"][c] # <<>> /\ Head(stream["client"][c]) \in Messages
          /\ Holds(stream["client"][c], Head(stream["client"][c]))
      BY <2>1, <1>2, HeadLemma, Zenon DEF Messages
    <2>3. Head(stream["client"][c]) = "client_setup"
      BY <2>2, <1>3, Zenon DEF PInv, UpInv, Messages
    <2>4. serve["server"][c] = "read" /\ ~done["server"][c]
      BY <2>2, <1>2, <1>3, <1>4, Zenon DEF PInv, ServeInv, ServerInv, Points
    <2> QED
      BY <2>2, <2>3, <2>4, <1>4, Zenon DEF Handled
  <1>7. done["server"][c]
    BY <1>2, <1>4, <1>6, Zenon DEF PInv, ServeInv
  <1>8. Holds(stream["server"][c], "server_setup")
    BY <1>4, <1>5, <1>7, Zenon DEF PInv, DownInv
  <1>9. /\ stream["server"][c] # <<>> /\ Head(stream["server"][c]) \in Messages
        /\ Holds(stream["server"][c], Head(stream["server"][c]))
    BY <1>8, <1>2, HeadLemma, Zenon DEF Messages
  <1>10. Head(stream["server"][c]) \in {"server_setup", "announce"}
    BY <1>9, Zenon DEF PInv, DownInv, Messages
  <1> QED
    BY <1>4, <1>5, <1>9, <1>10, Zenon DEF Handled

\* The invariant implies what the sessions promise.
LEMMA SessionSound == SInv => SessionsSound
  <1> SUFFICES ASSUME SInv PROVE SessionsSound
    BY Zenon
  <1> /\ "client" \in Sides /\ "server" \in Sides
      /\ Peer("client") = "server" /\ Peer("server") = "client"
    BY Zenon DEF Sides, Peer
  <1>2. ASSUME NEW c \in Clients PROVE PInv(c) /\ STypeOK
    BY Zenon DEF SInv
  <1>3. DialMeansHandshake
    <2> SUFFICES ASSUME NEW c \in Clients, dial[c] = "session", NEW side \in Sides
                 PROVE  done[side][c] /\ role[side][c] = LocalRole(Peer(side), c)
      BY Zenon DEF DialMeansHandshake
    <2>1. /\ done["client"][c] /\ Got("client", c) /\ done["server"][c] /\ Got("server", c)
      BY <1>2, SessionKnown, Zenon
    <2> QED
      BY <1>2, <2>1, Zenon DEF PInv, ServeInv, Sides
  <1>4. AudienceHasControlStream
    BY <1>2, Zenon DEF AudienceHasControlStream, PInv, ServerInv
  <1>5. HandleCloseOnce
    <2> SUFFICES ASSUME ServerRole = "relay", NEW c \in Clients, NEW side \in Sides
                 PROVE  closes[side][c] <= 1
      BY Zenon DEF HandleCloseOnce
    <2>1. closes["client"][c] \in {0, 1} /\ closes["server"][c] \in {0, 1}
      BY <1>2, Zenon DEF PInv, ClientInv, ServerInv
    <2> QED
      BY <2>1 DEF Sides
  <1>6. HandshakeCompletes
    BY <1>2, SessionQuiet, Zenon DEF HandshakeCompletes
  <1> QED
    BY <1>3, <1>4, <1>5, <1>6, Zenon DEF SessionsSound

\* Every action keeps the types.
LEMMA SessionTypeStep == Roles /\ STypeOK /\ SNext => STypeOK'
  <1> SUFFICES ASSUME Roles, STypeOK, UNCHANGED ServerRole, NEW c \in Clients PROVE
       (\/ Dial(c) \/ DialReturns(c) \/ DialTimesOut(c) \/ SendAnnounce(c)
          \/ ConnectionLost(c) \/ ServerSteps(c) \/ ClientSteps(c)) => STypeOK'
    BY Zenon DEF SNext
  <1> "client" \in Sides /\ "server" \in Sides
    BY Zenon DEF Sides
  <1>1. CASE Dial(c)
    BY <1>1, Zenon DEF Dial, STypeOK
  <1>2. CASE DialReturns(c)
    <2>1. chan \in [Sides -> [Clients -> {0, 1}]] /\ chan["client"][c] - 1 \in {0, 1}
      BY <1>2 DEF DialReturns, STypeOK
    <2>2. chan' = [chan EXCEPT !["client"][c] = chan["client"][c] - 1]
      BY <1>2, Zenon DEF DialReturns
    <2>3. chan' \in [Sides -> [Clients -> {0, 1}]]
      BY <2>1, <2>2, PutLemma, Zenon
    <2> QED
      BY <1>2, <2>3, Zenon DEF DialReturns, STypeOK
  <1>3. CASE DialTimesOut(c)
    BY <1>3, Zenon DEF DialTimesOut, STypeOK
  <1>4. CASE SendAnnounce(c)
    <2>1. stream' \in [Sides -> [Clients -> Seq(Messages)]]
      BY <1>4, WriteLemma, Zenon DEF SendAnnounce, Messages
    <2>2. sent' \in [Clients -> Nat]
      <3>1. sent \in [Clients -> Nat] /\ sent' = [sent EXCEPT ![c] = sent[c] + 1]
        BY <1>4, Zenon DEF SendAnnounce, STypeOK
      <3> QED
        BY <3>1
    <2> QED
      BY <1>4, <2>1, <2>2, Zenon DEF SendAnnounce, STypeOK, Messages
  <1>5. CASE ConnectionLost(c)
    BY <1>5, Zenon DEF ConnectionLost, STypeOK
  <1>6. CASE OpenStream(c)
    BY <1>6, Zenon DEF OpenStream, Goto, STypeOK, Sides
  <1>7. CASE OpenStreamFails(c)
    BY <1>7, CloseLemma, Zenon DEF OpenStreamFails, STypeOK
  <1>8. CASE SendClientSetup(c)
    <2>1. stream' \in [Sides -> [Clients -> Seq(Messages)]]
      BY <1>8, WriteLemma, Zenon DEF SendClientSetup, Messages
    <2> QED
      BY <1>8, <2>1, Zenon DEF SendClientSetup, STypeOK, Messages
  <1>9. CASE ListenerAccept(c)
    BY <1>9, Zenon DEF ListenerAccept, STypeOK
  <1>10. CASE AcceptStream(c)
    BY <1>10, Zenon DEF AcceptStream, Goto, STypeOK, Sides
  <1>11. CASE AcceptStreamFails(c)
    BY <1>11, CloseLemma, Zenon DEF AcceptStreamFails, STypeOK
  <1>12. ASSUME NEW side \in Sides, SetRemoteRole(side, c) PROVE STypeOK'
    <2>1. stream' \in [Sides -> [Clients -> Seq(Messages)]]
      BY <1>12, ReadLemma, Zenon DEF SetRemoteRole, SetupMessage, Messages
    <2>2. serve' \in [Sides -> [Clients -> Points]]
      BY <1>12, GotoLemma, Zenon DEF SetRemoteRole, Points
    <2>3. LocalRole(Peer(side), c) \in {"none", "pub", "sub", "relay"}
      BY Zenon DEF LocalRole, Roles, STypeOK
    <2>4. role' \in [Sides -> [Clients -> {"none", "pub", "sub", "relay"}]]
      BY <1>12, <2>3, PutLemma DEF SetRemoteRole, STypeOK
    <2> QED
      BY <1>12, <2>1, <2>2, <2>4, Zenon DEF SetRemoteRole, STypeOK, Messages, Points
  <1>13. ASSUME NEW side \in Sides, RejectRole(side, c) PROVE STypeOK'
    <2>1. serve' \in [Sides -> [Clients -> Points]]
      BY <1>13, GotoLemma, Zenon DEF RejectRole, Points
    <2> QED
      BY <1>13, <2>1, CloseLemma, Zenon DEF RejectRole, STypeOK, Points
  <1>14. ASSUME NEW side \in Sides, HandshakeDone(side, c) PROVE STypeOK'
    BY <1>14, Zenon DEF HandshakeDone, Goto, STypeOK, Sides
  <1>15. CASE SendServerSetup(c)
    <2>1. serve' \in [Sides -> [Clients -> Points]]
      BY <1>15, GotoLemma, Zenon DEF SendServerSetup, Points
    <2>2. stream' \in [Sides -> [Clients -> Seq(Messages)]]
      BY <1>15, WriteLemma, Zenon DEF SendServerSetup, Messages
    <2> QED
      BY <1>15, <2>1, <2>2, Zenon DEF SendServerSetup, STypeOK, Messages, Points
  <1>16. CASE UnknownSetupMessage(c)
    <2>1. stream' \in [Sides -> [Clients -> Seq(Messages)]]
      BY <1>16, ReadLemma, Zenon DEF UnknownSetupMessage, Messages
    <2> QED
      BY <1>16, <2>1, Zenon DEF UnknownSetupMessage, STypeOK, Messages
  <1>17. CASE SessionHandleAnnounce(c)
    <2>1. stream' \in [Sides -> [Clients -> Seq(Messages)]]
      BY <1>17, AnnounceLemma, Zenon
    <2>2. writers' \in [Clients -> Nat]
      <3>1. /\ writers \in [Clients -> Nat]
            /\ writers' = [s \in Clients |-> IF s \in Audience(c) THEN writers[s] + 1 ELSE writers[s]]
        BY <1>17, Zenon DEF SessionHandleAnnounce, STypeOK
      <3> QED
        BY <3>1
    <2> QED
      BY <1>17, <2>1, <2>2, Zenon DEF SessionHandleAnnounce, STypeOK, Messages
  <1>18. CASE WriteAnnounce(c)
    <2>1. stream' \in [Sides -> [Clients -> Seq(Messages)]]
      BY <1>18, WriteLemma, Zenon DEF WriteAnnounce, Messages
    <2>2. writers' \in [Clients -> Nat] /\ owed' \in [Clients -> Nat]
      <3>1. /\ writers \in [Clients -> Nat] /\ owed \in [Clients -> Nat] /\ writers[c] > 0
            /\ writers' = [writers EXCEPT ![c] = writers[c] - 1]
            /\ owed' = IF dial[c] = "session" THEN [owed EXCEPT ![c] = owed[c] + 1] ELSE owed
        BY <1>18, Zenon DEF WriteAnnounce, STypeOK
      <3> QED
        BY <3>1
    <2> QED
      BY <1>18, <2>1, <2>2, Zenon DEF WriteAnnounce, STypeOK, Messages
  <1>19. CASE HandleAnnounceOk(c)
    <2>1. stream' \in [Sides -> [Clients -> Seq(Messages)]]
      BY <1>19, ReadLemma, Zenon DEF HandleAnnounceOk, Messages
    <2> QED
      BY <1>19, <2>1, Zenon DEF HandleAnnounceOk, STypeOK, Messages
  <1>20. CASE SubHandleAnnounce(c)
    <2>1. serve' \in [Sides -> [Clients -> Points]]
      BY <1>20, GotoLemma, Zenon DEF SubHandleAnnounce, Points
    <2>2. stream' \in [Sides -> [Clients -> Seq(Messages)]]
      BY <1>20, ReadLemma, Zenon DEF SubHandleAnnounce, Messages
    <2> QED
      BY <1>20, <2>1, <2>2, Zenon DEF SubHandleAnnounce, STypeOK, Messages, Points
  <1>21. CASE TakeAnnounce(c)
    <2>1. serve' \in [Sides -> [Clients -> Points]]
      BY <1>21, GotoLemma, Zenon DEF TakeAnnounce, Points
    <2> QED
      BY <1>21, <2>1 DEF TakeAnnounce, STypeOK, Points
  <1>22. ASSUME NEW side \in Sides, ServeCSEnds(side, c) PROVE STypeOK'
    BY <1>22, Zenon DEF ServeCSEnds, Goto, STypeOK, Sides
  <1> QED
    BY <1>1, <1>2, <1>3, <1>4, <1>5, <1>6, <1>7, <1>8, <1>9, <1>10, <1>11, <1>12, <1>13,
       <1>14, <1>15, <1>16, <1>17, <1>18, <1>19, <1>20, <1>21, <1>22, Zenon
       DEF ServerSteps, ClientSteps, SessionServeCS

\* Dial, its return and its timer, SendAnnounce, and the loss of the connection.
LEMMA SessionDialled ==
  ASSUME SInv, UNCHANGED ServerRole, NEW c \in Clients,
         \/ Dial(c) \/ DialReturns(c) \/ DialTimesOut(c) \/ SendAnnounce(c) \/ ConnectionLost(c)
  PROVE  Kept(c)
  <1> "client" \in Sides /\ "server" \in Sides /\ STypeOK /\ PInv(c)
    BY Zenon DEF SInv, Sides
  <1>1. CASE Dial(c)
    <2> USE <1>1
    <2>1. PInv(c)'
      BY Zenon DEF Dial, STypeOK, PInv, ServeInv, ClientInv, ServerInv, UpInv, DownInv, Got, LocalRole,
         RoleError, Peer
    <2> QED
      BY <2>1, Zenon DEF Dial, STypeOK, Kept, Same, SameOne, SameSide
  <1>2. CASE DialReturns(c)
    <2> USE <1>2
    <2>1. /\ dial[c] = "wait" /\ dial'[c] = "session" /\ chan["client"][c] = 1
          /\ chan'["client"][c] = 0 /\ chan'["server"][c] = chan["server"][c]
          /\ UNCHANGED <<up, opener, accept, cs, serve, role, done, closes, stream, writers>>
      BY DEF DialReturns, STypeOK
    <2>2. PInv(c)'
      BY <2>1, Zenon DEF PInv, ServeInv, ClientInv, ServerInv, UpInv, DownInv, Got, LocalRole,
         RoleError, Peer
    <2> QED
      BY <2>2, Zenon DEF DialReturns, STypeOK, Kept, Same, SameOne, SameSide
  <1>3. CASE DialTimesOut(c)
    <2> USE <1>3
    <2>1. /\ dial[c] # "start" /\ dial[c] # "session" /\ dial'[c] # "start" /\ dial'[c] # "session"
          /\ UNCHANGED <<up, opener, accept, cs, serve, role, done, chan, closes, stream,
                         writers>>
      BY DEF DialTimesOut, STypeOK
    <2>2. ClientInv(c)' /\ UpInv(c)'
      BY <2>1, Zenon DEF PInv, ClientInv, UpInv, Got
    <2>3. PInv(c)'
      BY <2>1, <2>2, Zenon DEF PInv, ServeInv, ServerInv, DownInv, Got, LocalRole, RoleError, Peer
    <2> QED
      BY <2>3, Zenon DEF DialTimesOut, STypeOK, Kept, Same, SameOne, SameSide
  <1>4. CASE SendAnnounce(c)
    <2> USE <1>4
    <2>1. Write("client", c, "announce") /\ "announce" \in Messages
      BY Zenon DEF SendAnnounce, Messages
    <2>2. /\ Holds(stream'["client"][c], "client_setup") <=> Holds(stream["client"][c], "client_setup")
          /\ Holds(stream'["client"][c], "server_setup") <=> Holds(stream["client"][c], "server_setup")
          /\ Holds(stream'["client"][c], "announce") <=> Holds(stream["client"][c], "announce") \/ up[c]
          /\ Holds(stream'["client"][c], "announce_ok") <=> Holds(stream["client"][c], "announce_ok")
          /\ stream'["server"][c] = stream["server"][c]
      BY <2>1, WriteLemma, Zenon DEF Messages
    <2>3. \A x \in Sides, d \in Clients : d # c => stream'[x][d] = stream[x][d]
      BY <2>1, WriteLemma
    <2>4. /\ dial[c] = "session"
          /\ UNCHANGED <<up, dial, opener, accept, cs, serve, role, done, chan, closes, writers>>
      BY Zenon DEF SendAnnounce, STypeOK
    <2>5. PInv(c)'
      BY <2>2, <2>4, SessionKnown, Zenon DEF PInv, ServeInv, ClientInv, ServerInv, UpInv,
         DownInv, Got, LocalRole, RoleError, Peer
    <2> QED
      BY <2>3, <2>4, <2>5, Zenon DEF Kept, Same, SameOne, SameSide
  <1>5. CASE ConnectionLost(c)
    <2> USE <1>5
    <2>1. PInv(c)'
      BY Zenon DEF ConnectionLost, STypeOK, PInv, ServeInv, ClientInv, ServerInv, UpInv, DownInv, Got,
         LocalRole, RoleError, Peer
    <2> QED
      BY <2>1, Zenon DEF ConnectionLost, STypeOK, Kept, Same, SameOne, SameSide
  <1> QED
    BY <1>1, <1>2, <1>3, <1>4, <1>5, Zenon

\* InitiateHandshake on the client's control stream.
LEMMA SessionOpened ==
  ASSUME SInv, UNCHANGED ServerRole, NEW c \in Clients,
         \/ OpenStream(c) \/ OpenStreamFails(c) \/ SendClientSetup(c)
  PROVE  Kept(c)
  <1> "client" \in Sides /\ "server" \in Sides /\ STypeOK /\ PInv(c)
    BY Zenon DEF SInv, Sides
  <1>1. CASE OpenStream(c)
    <2> USE <1>1
    <2>1. /\ opener[c] = "open" /\ up[c] /\ opener'[c] = "setup" /\ cs'["client"][c] = TRUE
          /\ cs'["server"][c] = cs["server"][c] /\ serve'["client"][c] = "read"
          /\ serve'["server"][c] = serve["server"][c]
          /\ UNCHANGED <<up, dial, accept, role, done, chan, closes, stream, writers>>
      BY Zenon DEF OpenStream, Goto, STypeOK
    <2>2. PInv(c)'
      BY <2>1, Zenon DEF PInv, ServeInv, ClientInv, ServerInv, UpInv, DownInv, Got,
         LocalRole, RoleError, Peer
    <2> QED
      BY <2>2, Zenon DEF OpenStream, Goto, STypeOK, Kept, Same, SameOne, SameSide
  <1>2. CASE OpenStreamFails(c)
    <2> USE <1>2
    <2>1. /\ opener[c] = "open" /\ opener'[c] = "ended" /\ up'[c] = FALSE
          /\ closes["client"][c] = 0 => closes'["client"][c] = 1
          /\ closes'["server"][c] = closes["server"][c]
          /\ UNCHANGED <<dial, accept, cs, serve, role, done, chan, stream, writers>>
      BY DEF OpenStreamFails, CloseSession, STypeOK
    <2>2. PInv(c)'
      BY <2>1, Zenon DEF PInv, ServeInv, ClientInv, ServerInv, UpInv, DownInv, Got,
         LocalRole, RoleError, Peer
    <2> QED
      BY <2>2, Zenon DEF OpenStreamFails, CloseSession, STypeOK, Kept, Same, SameOne, SameSide
  <1>3. CASE SendClientSetup(c)
    <2> USE <1>3
    <2>1. Write("client", c, "client_setup") /\ "client_setup" \in Messages
      BY Zenon DEF SendClientSetup, Messages
    <2>2. /\ Holds(stream'["client"][c], "client_setup") <=> Holds(stream["client"][c], "client_setup") \/ up[c]
          /\ Holds(stream'["client"][c], "server_setup") <=> Holds(stream["client"][c], "server_setup")
          /\ Holds(stream'["client"][c], "announce") <=> Holds(stream["client"][c], "announce")
          /\ Holds(stream'["client"][c], "announce_ok") <=> Holds(stream["client"][c], "announce_ok")
          /\ stream'["server"][c] = stream["server"][c]
      BY <2>1, WriteLemma, Zenon DEF Messages
    <2>3. \A x \in Sides, d \in Clients : d # c => stream'[x][d] = stream[x][d]
      BY <2>1, WriteLemma
    <2>4. /\ opener[c] = "setup" /\ opener'[c] = "ended"
          /\ UNCHANGED <<up, dial, accept, cs, serve, role, done, chan, closes, writers>>
      BY Zenon DEF SendClientSetup, STypeOK
    <2>5. PInv(c)'
      BY <2>2, <2>4, Zenon DEF PInv, ServeInv, ClientInv, ServerInv, UpInv, DownInv, Got,
         LocalRole, RoleError, Peer
    <2> QED
      BY <2>3, <2>5, Zenon DEF SendClientSetup, STypeOK, Kept, Same, SameOne, SameSide
  <1> QED
    BY <1>1, <1>2, <1>3, Zenon

\* The listener and handleControlStream.
LEMMA SessionAccepted ==
  ASSUME SInv, UNCHANGED ServerRole, NEW c \in Clients,
         \/ ListenerAccept(c) \/ AcceptStream(c) \/ AcceptStreamFails(c)
  PROVE  Kept(c)
  <1> "client" \in Sides /\ "server" \in Sides /\ STypeOK /\ PInv(c)
    BY Zenon DEF SInv, Sides
  <1>1. CASE ListenerAccept(c)
    <2> USE <1>1
    <2>1. /\ accept[c] = "none" /\ accept'[c] = "accept"
          /\ UNCHANGED <<up, dial, opener, cs, serve, role, done, chan, closes, stream, writers>>
      BY Zenon DEF ListenerAccept, STypeOK
    <2>2. PInv(c)'
      BY <2>1, Zenon DEF PInv, ServeInv, ClientInv, ServerInv, UpInv, DownInv, Got,
         LocalRole, RoleError, Peer
    <2> QED
      BY <2>2, Zenon DEF ListenerAccept, STypeOK, Kept, Same, SameOne, SameSide
  <1>2. CASE AcceptStream(c)
    <2> USE <1>2
    <2>1. /\ accept[c] = "accept" /\ ~cs["server"][c] /\ cs'["server"][c] = TRUE
          /\ cs'["client"][c] = cs["client"][c] /\ serve'["server"][c] = "read"
          /\ serve'["client"][c] = serve["client"][c]
          /\ UNCHANGED <<up, dial, opener, accept, role, done, chan, closes, stream, writers>>
      BY Zenon DEF AcceptStream, Goto, STypeOK
    <2>2. PInv(c)'
      BY <2>1, Zenon DEF PInv, ServeInv, ClientInv, ServerInv, UpInv, DownInv, Got,
         LocalRole, RoleError, Peer
    <2> QED
      BY <2>2, Zenon DEF AcceptStream, Goto, STypeOK, Kept, Same, SameOne, SameSide
  <1>3. CASE AcceptStreamFails(c)
    <2> USE <1>3
    <2>1. /\ accept[c] = "accept" /\ accept'[c] = "ended" /\ up'[c] = FALSE
          /\ closes["server"][c] = 0 => closes'["server"][c] = 1
          /\ closes'["client"][c] = closes["client"][c]
          /\ UNCHANGED <<dial, opener, cs, serve, role, done, chan, stream, writers>>
      BY DEF AcceptStreamFails, CloseSession, STypeOK
    <2>2. PInv(c)'
      BY <2>1, ZenonT(40) DEF PInv, ServeInv, ClientInv, ServerInv, UpInv, DownInv, Got,
         LocalRole, RoleError, Peer
    <2> QED
      BY <2>2, Zenon DEF AcceptStreamFails, CloseSession, STypeOK, Kept, Same, SameOne, SameSide
  <1> QED
    BY <1>1, <1>2, <1>3, Zenon

\* handleSetupMessage takes the role, or rejects it.
LEMMA SessionRoles ==
  ASSUME Roles, SInv, UNCHANGED ServerRole, NEW c \in Clients,
         \/ SetRemoteRole("server", c) \/ SetRemoteRole("client", c) \/ RejectRole("server", c)
         \/ RejectRole("client", c)
  PROVE  Kept(c)
  <1> "client" \in Sides /\ "server" \in Sides /\ STypeOK /\ PInv(c)
    BY Zenon DEF SInv, Sides
  <1>1. CASE SetRemoteRole("server", c)
    <2> USE <1>1
    <2>1. Read("server", c, "client_setup") /\ "client_setup" \in Messages /\ Peer("server") = "client"
      BY Zenon DEF SetRemoteRole, Messages, SetupMessage, Peer
    <2>2. /\ up[c] /\ serve["server"][c] = "read"
          /\ Holds(stream["client"][c], "client_setup")
          /\ Holds(stream'["client"][c], "server_setup") <=> Holds(stream["client"][c], "server_setup")
          /\ Holds(stream'["client"][c], "announce") <=> Holds(stream["client"][c], "announce")
          /\ Holds(stream'["client"][c], "announce_ok") <=> Holds(stream["client"][c], "announce_ok")
          /\ stream'["server"][c] = stream["server"][c]
      <3>1. /\ up[c] /\ serve["server"][c] = "read"
            /\ \A n \in Messages :
                  Holds(stream["client"][c], n) <=> Holds(stream'["client"][c], n) \/ n = "client_setup"
            /\ stream'["server"][c] = stream["server"][c]
        BY <2>1, ReadLemma
      <3> QED
        BY <3>1, Members
    <2>3. \A x \in Sides, d \in Clients : d # c => stream'[x][d] = stream[x][d]
      BY <2>1, ReadLemma
    <2>4. /\ role'["server"][c] = LocalRole("client", c) /\ role'["client"][c] = role["client"][c]
      BY Zenon DEF SetRemoteRole, STypeOK, Peer
    <2>5. LocalRole("client", c) # "none"
      BY Zenon DEF LocalRole, Roles
    <2>6. /\ ~done["server"][c]
          /\ serve'["server"][c] = (IF RoleError("server", c) THEN "reject" ELSE "done")
          /\ serve'["client"][c] = serve["client"][c]
          /\ UNCHANGED <<up, dial, opener, accept, cs, done, chan, closes, writers>>
      BY Zenon DEF SetRemoteRole, Goto, STypeOK
    <2>7. PInv(c)'
      BY <2>2, <2>4, <2>5, <2>6, Zenon DEF PInv, ServeInv, ClientInv, ServerInv, UpInv,
         DownInv, Got, LocalRole, RoleError, Peer, Roles
    <2> QED
      BY <2>3, <2>7, Zenon DEF SetRemoteRole, Goto, STypeOK, Kept, Same, SameOne, SameSide
  <1>2. CASE SetRemoteRole("client", c)
    <2> USE <1>2
    <2>1. Read("client", c, "server_setup") /\ "server_setup" \in Messages /\ Peer("client") = "server"
      BY Zenon DEF SetRemoteRole, Messages, SetupMessage, Peer
    <2>2. /\ up[c] /\ serve["client"][c] = "read"
          /\ Holds(stream'["server"][c], "client_setup") <=> Holds(stream["server"][c], "client_setup")
          /\ Holds(stream["server"][c], "server_setup")
          /\ Holds(stream'["server"][c], "announce_ok") <=> Holds(stream["server"][c], "announce_ok")
          /\ stream'["client"][c] = stream["client"][c]
      <3>1. /\ up[c] /\ serve["client"][c] = "read"
            /\ \A n \in Messages :
                  Holds(stream["server"][c], n) <=> Holds(stream'["server"][c], n) \/ n = "server_setup"
            /\ stream'["client"][c] = stream["client"][c]
        BY <2>1, ReadLemma
      <3> QED
        BY <3>1, Members
    <2>3. \A x \in Sides, d \in Clients : d # c => stream'[x][d] = stream[x][d]
      BY <2>1, ReadLemma
    <2>4. /\ role'["client"][c] = LocalRole("server", c) /\ role'["server"][c] = role["server"][c]
      BY Zenon DEF SetRemoteRole, STypeOK, Peer
    <2>5. LocalRole("server", c) # "none"
      BY Zenon DEF LocalRole, STypeOK
    <2>6. /\ ~done["client"][c]
          /\ serve'["client"][c] = (IF RoleError("client", c) THEN "reject" ELSE "done")
          /\ serve'["server"][c] = serve["server"][c]
          /\ UNCHANGED <<up, dial, opener, accept, cs, done, chan, closes, writers>>
      BY Zenon DEF SetRemoteRole, Goto, STypeOK
    <2>7. PInv(c)'
      BY <2>2, <2>4, <2>5, <2>6, Zenon DEF PInv, ServeInv, ClientInv, ServerInv, UpInv,
         DownInv, Got, LocalRole, RoleError, Peer
    <2> QED
      BY <2>3, <2>7, Zenon DEF SetRemoteRole, Goto, STypeOK, Kept, Same, SameOne, SameSide
  <1>3. CASE RejectRole("server", c)
    <2> USE <1>3
    <2>1. /\ serve["server"][c] = "reject" /\ serve'["server"][c] = "read"
          /\ serve'["client"][c] = serve["client"][c] /\ up'[c] = FALSE
          /\ closes'["server"][c] = closes["server"][c] + 1
          /\ closes'["client"][c] = closes["client"][c]
          /\ UNCHANGED <<dial, opener, accept, cs, role, done, chan, stream, writers>>
      BY DEF RejectRole, Goto, CloseSession, STypeOK
    <2>2. PInv(c)'
      BY <2>1, Zenon DEF PInv, ServeInv, ClientInv, ServerInv, UpInv, DownInv, Got,
         LocalRole, RoleError, Peer
    <2> QED
      BY <2>2, Zenon DEF RejectRole, Goto, CloseSession, STypeOK, Kept, Same, SameOne, SameSide
  <1>4. CASE RejectRole("client", c)
    <2> USE <1>4
    <2>1. /\ serve["client"][c] = "reject" /\ serve'["client"][c] = "read"
          /\ serve'["server"][c] = serve["server"][c] /\ up'[c] = FALSE
          /\ closes'["client"][c] = closes["client"][c] + 1
          /\ closes'["server"][c] = closes["server"][c]
          /\ UNCHANGED <<dial, opener, accept, cs, role, done, chan, stream, writers>>
      BY Zenon DEF RejectRole, Goto, CloseSession, STypeOK
    <2>2. PInv(c)'
      BY <2>1, Zenon DEF PInv, ServeInv, ClientInv, ServerInv, UpInv, DownInv, Got,
         LocalRole, RoleError, Peer, Roles
    <2> QED
      BY <2>2, Zenon DEF RejectRole, Goto, CloseSession, STypeOK, Kept, Same, SameOne, SameSide
  <1> QED
    BY <1>1, <1>2, <1>3, <1>4, Zenon

\* handleSetupMessage finishes, the server answers, the client drops what comes too early.
LEMMA SessionHandshakes ==
  ASSUME SInv, UNCHANGED ServerRole, NEW c \in Clients,
         \/ HandshakeDone("server", c) \/ HandshakeDone("client", c) \/ SendServerSetup(c)
         \/ UnknownSetupMessage(c)
  PROVE  Kept(c)
  <1> "client" \in Sides /\ "server" \in Sides /\ STypeOK /\ PInv(c)
    BY Zenon DEF SInv, Sides
  <1>1. CASE HandshakeDone("server", c)
    <2> USE <1>1
    <2>1. /\ serve["server"][c] = "done" /\ chan'["server"][c] = 1
          /\ chan'["client"][c] = chan["client"][c] /\ done'["server"][c] = TRUE
          /\ done'["client"][c] = done["client"][c] /\ serve'["server"][c] = "reply"
          /\ serve'["client"][c] = serve["client"][c]
          /\ UNCHANGED <<up, dial, opener, accept, cs, role, closes, stream, writers>>
      BY Zenon DEF HandshakeDone, Goto, STypeOK
    <2>2. PInv(c)'
      BY <2>1, Zenon DEF PInv, ServeInv, ClientInv, ServerInv, UpInv, DownInv, Got,
         LocalRole, RoleError, Peer
    <2> QED
      BY <2>2, Zenon DEF HandshakeDone, Goto, STypeOK, Kept, Same, SameOne, SameSide
  <1>2. CASE HandshakeDone("client", c)
    <2> USE <1>2
    <2>1. /\ serve["client"][c] = "done" /\ chan'["client"][c] = 1
          /\ chan'["server"][c] = chan["server"][c] /\ done'["client"][c] = TRUE
          /\ done'["server"][c] = done["server"][c] /\ serve'["client"][c] = "read"
          /\ serve'["server"][c] = serve["server"][c]
          /\ UNCHANGED <<up, dial, opener, accept, cs, role, closes, stream, writers>>
      BY Zenon DEF HandshakeDone, Goto, STypeOK
    <2>2. PInv(c)'
      BY <2>1, Zenon DEF PInv, ServeInv, ClientInv, ServerInv, UpInv, DownInv, Got,
         LocalRole, RoleError, Peer
    <2> QED
      BY <2>2, Zenon DEF HandshakeDone, Goto, STypeOK, Kept, Same, SameOne, SameSide
  <1>3. CASE SendServerSetup(c)
    <2> USE <1>3
    <2>1. Write("server", c, "server_setup") /\ "server_setup" \in Messages
      BY Zenon DEF SendServerSetup, Messages
    <2>2. /\ Holds(stream'["server"][c], "client_setup") <=> Holds(stream["server"][c], "client_setup")
          /\ Holds(stream'["server"][c], "server_setup") <=>
                Holds(stream["server"][c], "server_setup") \/ up[c]
          /\ Holds(stream'["server"][c], "announce_ok") <=> Holds(stream["server"][c], "announce_ok")
          /\ stream'["client"][c] = stream["client"][c]
      BY <2>1, WriteLemma, Zenon DEF Messages
    <2>3. \A x \in Sides, d \in Clients : d # c => stream'[x][d] = stream[x][d]
      BY <2>1, WriteLemma
    <2>4. /\ serve["server"][c] = "reply" /\ serve'["server"][c] = "read"
          /\ serve'["client"][c] = serve["client"][c]
          /\ UNCHANGED <<up, dial, opener, accept, cs, role, done, chan, closes, writers>>
      BY Zenon DEF SendServerSetup, Goto, STypeOK
    <2>5. PInv(c)'
      BY <2>2, <2>4, ZenonT(40) DEF PInv, ServeInv, ClientInv, ServerInv, UpInv, DownInv, Got,
         LocalRole, RoleError, Peer
    <2> QED
      BY <2>3, <2>5, Zenon DEF SendServerSetup, Goto, STypeOK, Kept, Same, SameOne, SameSide
  <1>4. CASE UnknownSetupMessage(c)
    <2> USE <1>4
    <2>1. Read("client", c, "announce") /\ "announce" \in Messages /\ Peer("client") = "server"
      BY Zenon DEF UnknownSetupMessage, Messages, Peer
    <2>2. /\ up[c] /\ serve["client"][c] = "read"
          /\ Holds(stream'["server"][c], "client_setup") <=> Holds(stream["server"][c], "client_setup")
          /\ Holds(stream'["server"][c], "server_setup") <=> Holds(stream["server"][c], "server_setup")
          /\ Holds(stream'["server"][c], "announce_ok") <=> Holds(stream["server"][c], "announce_ok")
          /\ stream'["client"][c] = stream["client"][c]
      <3>1. /\ up[c] /\ serve["client"][c] = "read"
            /\ \A n \in Messages :
                  Holds(stream["server"][c], n) <=> Holds(stream'["server"][c], n) \/ n = "announce"
            /\ stream'["client"][c] = stream["client"][c]
        BY <2>1, ReadLemma
      <3> QED
        BY <3>1, Members
    <2>3. \A x \in Sides, d \in Clients : d # c => stream'[x][d] = stream[x][d]
      BY <2>1, ReadLemma
    <2>4. /\ UNCHANGED <<up, dial, opener, accept, cs, serve, role, done, chan, closes, writers>>
      BY Zenon DEF UnknownSetupMessage, STypeOK
    <2>5. PInv(c)'
      BY <2>2, <2>4, Zenon DEF PInv, ServeInv, ClientInv, ServerInv, UpInv, DownInv, Got,
         LocalRole, RoleError, Peer
    <2> QED
      BY <2>3, <2>4, <2>5, Zenon DEF Kept, Same, SameOne, SameSide
  <1> QED
    BY <1>1, <1>2, <1>3, <1>4, Zenon

\* HandleAnnounce of a relay and the goroutines it starts.
LEMMA SessionAnnounces ==
  ASSUME SInv, UNCHANGED ServerRole, NEW c \in Clients,
         \/ SessionHandleAnnounce(c) \/ WriteAnnounce(c)
  PROVE  Kept(c)
  <1> "client" \in Sides /\ "server" \in Sides /\ STypeOK /\ PInv(c)
    BY Zenon DEF SInv, Sides
  <1>1. CASE SessionHandleAnnounce(c)
    <2> USE <1>1
    <2>1. /\ Holds(stream["client"][c], "announce")
          /\ Holds(stream'["client"][c], "client_setup") <=> Holds(stream["client"][c], "client_setup")
          /\ Holds(stream'["client"][c], "server_setup") <=> Holds(stream["client"][c], "server_setup")
          /\ Holds(stream'["client"][c], "announce_ok") <=> Holds(stream["client"][c], "announce_ok")
          /\ Holds(stream'["server"][c], "client_setup") <=> Holds(stream["server"][c], "client_setup")
          /\ Holds(stream'["server"][c], "server_setup") <=> Holds(stream["server"][c], "server_setup")
          /\ Holds(stream'["server"][c], "announce_ok")
      BY AnnounceLemma, Zenon DEF Messages
    <2>2. \A x \in Sides, d \in Clients : d # c => stream'[x][d] = stream[x][d]
      BY AnnounceLemma, Zenon
    <2>3. ASSUME NEW d \in Clients PROVE writers'[d] = writers[d] \/ Got("server", d)
      <3>1. writers' = [s \in Clients |-> IF s \in Audience(c) THEN writers[s] + 1 ELSE writers[s]]
        BY Zenon DEF SessionHandleAnnounce
      <3> QED
        BY <3>1, Zenon DEF Audience, Got
    <2>4. /\ up[c] /\ done["server"][c]
          /\ UNCHANGED <<up, dial, opener, accept, cs, serve, role, done, chan, closes>>
      BY Zenon DEF SessionHandleAnnounce, STypeOK
    <2>5. PInv(c)'
      BY <2>1, <2>4, Zenon DEF PInv, ServeInv, ClientInv, ServerInv, UpInv, DownInv, Got,
         LocalRole, RoleError, Peer
    <2> QED
      BY <2>2, <2>3, <2>4, <2>5, Zenon DEF Kept, Same, SameOne, SameSide
  <1>2. CASE WriteAnnounce(c)
    <2> USE <1>2
    <2>1. Write("server", c, "announce") /\ "announce" \in Messages
      BY Zenon DEF WriteAnnounce, Messages
    <2>2. /\ Holds(stream'["server"][c], "client_setup") <=> Holds(stream["server"][c], "client_setup")
          /\ Holds(stream'["server"][c], "server_setup") <=> Holds(stream["server"][c], "server_setup")
          /\ Holds(stream'["server"][c], "announce_ok") <=> Holds(stream["server"][c], "announce_ok")
          /\ stream'["client"][c] = stream["client"][c]
      BY <2>1, WriteLemma, Zenon DEF Messages
    <2>3. \A x \in Sides, d \in Clients : d # c => stream'[x][d] = stream[x][d]
      BY <2>1, WriteLemma
    <2>4. /\ cs["server"][c]
          /\ UNCHANGED <<up, dial, opener, accept, cs, serve, role, done, chan, closes>>
      BY Zenon DEF WriteAnnounce, STypeOK, PInv, ServerInv
    <2>5. PInv(c)'
      BY <2>2, <2>4, ZenonT(30) DEF PInv, ServeInv, ClientInv, ServerInv, UpInv, DownInv, Got,
         LocalRole, RoleError, Peer
    <2> QED
      BY <2>3, <2>5, Zenon DEF WriteAnnounce, STypeOK, Kept, Same, SameOne, SameSide
  <1> QED
    BY <1>1, <1>2, Zenon

\* The client reads ANNOUNCE and ANNOUNCE_OK, and ServeCS ends.
LEMMA SessionHears ==
  ASSUME SInv, UNCHANGED ServerRole, NEW c \in Clients,
         \/ HandleAnnounceOk(c) \/ SubHandleAnnounce(c) \/ TakeAnnounce(c)
         \/ ServeCSEnds("client", c) \/ ServeCSEnds("server", c)
  PROVE  Kept(c)
  <1> "client" \in Sides /\ "server" \in Sides /\ STypeOK /\ PInv(c)
    BY Zenon DEF SInv, Sides
  <1>1. CASE HandleAnnounceOk(c)
    <2> USE <1>1
    <2>1. Read("client", c, "announce_ok") /\ "announce_ok" \in Messages /\ Peer("client") = "server"
      BY Zenon DEF HandleAnnounceOk, Messages, Peer
    <2>2. /\ up[c] /\ serve["client"][c] = "read"
          /\ Holds(stream'["server"][c], "client_setup") <=> Holds(stream["server"][c], "client_setup")
          /\ Holds(stream'["server"][c], "server_setup") <=> Holds(stream["server"][c], "server_setup")
          /\ Holds(stream["server"][c], "announce_ok")
          /\ stream'["client"][c] = stream["client"][c]
      <3>1. /\ up[c] /\ serve["client"][c] = "read"
            /\ \A n \in Messages :
                  Holds(stream["server"][c], n) <=> Holds(stream'["server"][c], n) \/ n = "announce_ok"
            /\ stream'["client"][c] = stream["client"][c]
        BY <2>1, ReadLemma
      <3> QED
        BY <3>1, Members
    <2>3. \A x \in Sides, d \in Clients : d # c => stream'[x][d] = stream[x][d]
      BY <2>1, ReadLemma
    <2>4. /\ UNCHANGED <<up, dial, opener, accept, cs, serve, role, done, chan, closes, writers>>
      BY Zenon DEF HandleAnnounceOk, STypeOK
    <2>5. PInv(c)'
      BY <2>2, <2>4, Zenon DEF PInv, ServeInv, ClientInv, ServerInv, UpInv, DownInv, Got,
         LocalRole, RoleError, Peer
    <2> QED
      BY <2>3, <2>4, <2>5, Zenon DEF Kept, Same, SameOne, SameSide
  <1>2. CASE SubHandleAnnounce(c)
    <2> USE <1>2
    <2>1. Read("client", c, "announce") /\ "announce" \in Messages /\ Peer("client") = "server"
      BY Zenon DEF SubHandleAnnounce, Messages, Peer
    <2>2. /\ up[c] /\ serve["client"][c] = "read"
          /\ Holds(stream'["server"][c], "client_setup") <=> Holds(stream["server"][c], "client_setup")
          /\ Holds(stream'["server"][c], "server_setup") <=> Holds(stream["server"][c], "server_setup")
          /\ Holds(stream'["server"][c], "announce_ok") <=> Holds(stream["server"][c], "announce_ok")
          /\ stream'["client"][c] = stream["client"][c]
      <3>1. /\ up[c] /\ serve["client"][c] = "read"
            /\ \A n \in Messages :
                  Holds(stream["server"][c], n) <=> Holds(stream'["server"][c], n) \/ n = "announce"
            /\ stream'["client"][c] = stream["client"][c]
        BY <2>1, ReadLemma
      <3> QED
        BY <3>1, Members
    <2>3. \A x \in Sides, d \in Clients : d # c => stream'[x][d] = stream[x][d]
      BY <2>1, ReadLemma
    <2>4. /\ done["client"][c] /\ serve'["client"][c] = "announce"
          /\ serve'["server"][c] = serve["server"][c]
          /\ UNCHANGED <<up, dial, opener, accept, cs, role, done, chan, closes, writers>>
      BY Zenon DEF SubHandleAnnounce, Goto, STypeOK
    <2>5. PInv(c)'
      BY <2>2, <2>4, Zenon DEF PInv, ServeInv, ClientInv, ServerInv, UpInv, DownInv, Got,
         LocalRole, RoleError, Peer
    <2> QED
      BY <2>3, <2>5, Zenon DEF SubHandleAnnounce, Goto, STypeOK, Kept, Same, SameOne, SameSide
  <1>3. CASE TakeAnnounce(c)
    <2> USE <1>3
    <2>1. /\ serve["client"][c] = "announce" /\ serve'["client"][c] = "read"
          /\ serve'["server"][c] = serve["server"][c]
          /\ UNCHANGED <<up, dial, opener, accept, cs, role, done, chan, closes, stream, writers>>
      BY Zenon DEF TakeAnnounce, Goto, STypeOK
    <2>2. PInv(c)'
      BY <2>1, Zenon DEF PInv, ServeInv, ClientInv, ServerInv, UpInv, DownInv, Got,
         LocalRole, RoleError, Peer
    <2> QED
      BY <2>2, Zenon DEF TakeAnnounce, Goto, STypeOK, Kept, Same, SameOne, SameSide
  <1>4. CASE ServeCSEnds("client", c)
    <2> USE <1>4
    <2>1. /\ serve["client"][c] = "read" /\ ~up[c] /\ serve'["client"][c] = "ended"
          /\ serve'["server"][c] = serve["server"][c]
          /\ UNCHANGED <<up, dial, opener, accept, cs, role, done, chan, closes, stream, writers>>
      BY ZenonT(40) DEF ServeCSEnds, Goto, STypeOK
    <2>2. PInv(c)'
      BY <2>1, ZenonT(40) DEF PInv, ServeInv, ClientInv, ServerInv, UpInv, DownInv, Got,
         LocalRole, RoleError, Peer
    <2> QED
      BY <2>2, Zenon DEF ServeCSEnds, Goto, STypeOK, Kept, Same, SameOne, SameSide
  <1>5. CASE ServeCSEnds("server", c)
    <2> USE <1>5
    <2>1. /\ serve["server"][c] = "read" /\ ~up[c] /\ serve'["server"][c] = "ended"
          /\ serve'["client"][c] = serve["client"][c]
          /\ UNCHANGED <<up, dial, opener, accept, cs, role, done, chan, closes, stream, writers>>
      BY Zenon DEF ServeCSEnds, Goto, STypeOK
    <2>2. PInv(c)'
      BY <2>1, Zenon DEF PInv, ServeInv, ClientInv, ServerInv, UpInv, DownInv, Got,
         LocalRole, RoleError, Peer
    <2> QED
      BY <2>2, Zenon DEF ServeCSEnds, Goto, STypeOK, Kept, Same, SameOne, SameSide
  <1> QED
    BY <1>1, <1>2, <1>3, <1>4, <1>5, Zenon

\* Every step keeps the invariant.
LEMMA SessionStep ==
  ASSUME Roles, SInv, [SNext]_<<ServerRole, svars>>
  PROVE  SInv'
  <1>1. CASE SNext
    <2>1. STypeOK'
      BY <1>1, SessionTypeStep, Zenon DEF SInv
    <2>2. PICK c \in Clients :
             \/ Dial(c) \/ DialReturns(c) \/ DialTimesOut(c) \/ SendAnnounce(c)
             \/ ConnectionLost(c) \/ ServerSteps(c) \/ ClientSteps(c)
      BY <1>1, Zenon DEF SNext
    <2>3. UNCHANGED ServerRole
      BY <1>1, Zenon DEF SNext
    <2>4. Kept(c)
      BY <2>2, <2>3, SessionDialled, SessionOpened, SessionAccepted, SessionRoles,
         SessionHandshakes, SessionAnnounces, SessionHears, Zenon
         DEF ServerSteps, ClientSteps, SessionServeCS
    <2>5. ASSUME NEW d \in Clients PROVE PInv(d)'
      <3>1. CASE d = c
        BY <3>1, <2>4, Zenon DEF Kept
      <3>2. CASE d # c
        BY <3>2, <2>3, <2>4, KeepAll, Zenon DEF Kept, SInv
      <3> QED
        BY <3>1, <3>2, Zenon
    <2> QED
      BY <2>1, <2>5, Zenon DEF SInv
  <1>2. CASE UNCHANGED <<ServerRole, svars>>
    <2>1. STypeOK'
      BY <1>2, Zenon DEF SInv, svars, STypeOK
    <2>2. ASSUME NEW d \in Clients PROVE Same(d)
      BY <1>2, Zenon DEF svars, Same, SameOne, SameSide
    <2>3. ASSUME NEW d \in Clients PROVE PInv(d)'
      BY <1>2, <2>2, KeepAll, Zenon DEF SInv
    <2> QED
      BY <2>1, <2>3, Zenon DEF SInv
  <1> QED
    BY <1>1, <1>2, Zenon

\* Dial returns only sessions that both ends have accepted, a relay's announcements find a control
\* stream, HandleClose runs at most once, and a handshake on a connection that stays up is finished
\* when nothing is left to do: for any number of clients and announcements.
THEOREM SessionsTheorem ==
  ASSUME Roles
  PROVE  SSpec => []SessionsSound
  <1>1. SInit => SInv
    BY SessionInit, Zenon
  <1>2. SInv /\ [SNext]_<<ServerRole, svars>> => SInv'
    BY SessionStep, Zenon
  <1>3. SInv => SessionsSound
    BY SessionSound, Zenon
  <1> QED
    BY <1>1, <1>2, <1>3, PTL DEF SSpec
=============================================================================
