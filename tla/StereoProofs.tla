---------------------------- MODULE StereoProofs ----------------------------
(* Proofs about the stereo on its bus.  The handlers are grouped by what they *)
(* touch: plain steps (texts, menus, frames to send), steps of the levels,    *)
(* steps of the node's life (discovery, boot, power) and of the source.  Each *)
(* keeps what is shown current; the invariant of the bus adds where the node  *)
(* is in the message under way when frames may have been lost.                *)
EXTENDS StereoBus, TLAPS

NodeFields == {"address", "hu", "system", "boot", "disco", "timer", "state", "ignore", "pgn", "id", "seq",
               "volume", "fade", "balance", "mute", "tone", "source", "secondary", "bt", "playback",
               "seek", "frequency", "gain", "text", "page", "item", "count", "entry", "shown", "sent"}

\* A record of the node's fields.
Shape(s) == s = [x \in NodeFields |-> s[x]]

\* t is s but for the fields of F.
But(s, t, F) == Shape(t) /\ \A x \in NodeFields \ F : t[x] = s[x]

\* Event e is shown as it is kept.
Shows(s, e) == e \in DOMAIN s.shown /\ s.shown[e] = Kept(s, e)

\* Two changes one after the other.
LEMMA BothBut ==
  ASSUME NEW s, NEW t, NEW u, NEW F, NEW G, But(s, t, F), But(t, u, G)
  PROVE  But(s, u, F \cup G)
BY DEF But

\* Events are made of none of these fields.
LEMMA SameKept ==
  ASSUME NEW s, NEW t, But(s, t, {"shown", "sent", "state", "ignore", "pgn", "id", "seq"}), NEW e
  PROVE  Kept(t, e) = Kept(s, e)
<1>1. /\ t.system = s.system /\ t.volume = s.volume /\ t.fade = s.fade /\ t.balance = s.balance
      /\ t.mute = s.mute /\ t.tone = s.tone /\ t.source = s.source /\ t.bt = s.bt
      /\ t.playback = s.playback /\ t.seek = s.seek /\ t.frequency = s.frequency
      /\ t.gain = s.gain /\ t.page = s.page /\ t.item = s.item /\ t.count = s.count
      /\ t.entry = s.entry /\ t.text = s.text
  BY DEF But, NodeFields
<1> QED BY <1>1 DEF Kept

\* What is yielded is shown, and what was shown stays so.
LEMMA Yields ==
  ASSUME NEW s, Shape(s), NEW es, NEW t, t = Yield(s, es)
  PROVE  /\ But(s, t, {"shown"})
         /\ \A e \in es : Shows(t, e)
         /\ \A e : Shows(s, e) => Shows(t, e)
<1> DEFINE now == [e \in DOMAIN s.shown \cup es |-> IF e \in es THEN Kept(s, e) ELSE s.shown[e]]
<1>1. t = [s EXCEPT !.shown = now]
  BY DEF Yield
<1>2. "shown" \in NodeFields
  BY DEF NodeFields
<1>3. But(s, t, {"shown"}) /\ t.shown = now
  BY <1>1, <1>2 DEF Shape, But
<1>4. \A e : Kept(t, e) = Kept(s, e)
  BY <1>3, SameKept DEF But
<1> QED BY <1>3, <1>4 DEF Shows

Requests(q) ==
  /\ \E S : q \in Seq(S)
  /\ \A i \in 1 .. Len(q) : q[i][1] = "REQUEST" => q[i][2] \in {"PRODUCT", "ANNOUNCE"}

\* A frame more to send.
LEMMA OneMoreFrame ==
  ASSUME NEW q, Requests(q), NEW f, f[1] = "REQUEST" => f[2] \in {"PRODUCT", "ANNOUNCE"},
         NEW r, r = Append(q, f)
  PROVE  Requests(r)
<1>1. PICK S : q \in Seq(S)
  BY DEF Requests
<1>2. /\ r \in Seq(S \cup {f})
      /\ Len(q) \in Nat /\ Len(r) = Len(q) + 1
      /\ \A i \in 1 .. Len(q) : r[i] = q[i]
      /\ r[Len(q) + 1] = f
  <2>1. q \in Seq(S \cup {f})
    BY <1>1
  <2> QED BY <2>1
<1>3. \A i \in 1 .. Len(r) : r[i][1] = "REQUEST" => r[i][2] \in {"PRODUCT", "ANNOUNCE"}
  <2> TAKE i \in 1 .. Len(r)
  <2>1. (i \in 1 .. Len(q) /\ r[i] = q[i]) \/ r[i] = f
    BY <1>2
  <2> QED BY <2>1, Zenon DEF Requests
<1> QED BY <1>2, <1>3 DEF Requests

\* Fields that no property is about.
Others == {"pgn", "id", "playback", "seek", "frequency", "gain", "text", "page", "item", "entry"}

SameLife(s, t) ==
  /\ t.address = s.address /\ t.hu = s.hu /\ t.system = s.system
  /\ t.boot = s.boot /\ t.timer = s.timer /\ t.disco = s.disco

SameLevels(s, t) ==
  t.volume = s.volume /\ t.fade = s.fade /\ t.balance = s.balance /\ t.tone = s.tone /\ t.count = s.count

SameSource(s, t) == t.source = s.source /\ t.secondary = s.secondary

\* What is shown stays so.
StillShown(s, t, es) == \A e \in es : Shows(s, e) => Shows(t, e)

\* A step that is not about the life of the node, its levels or its source.
Ordinary(s, t) ==
  /\ Shape(t)
  /\ SameLife(s, t)
  /\ t.state = s.state /\ t.seq = s.seq
  /\ Requests(s.sent) => Requests(t.sent)
  /\ StillShown(s, t, {"SYSTEM_STATE"})
  /\ s.system = "ON" => StillShown(s, t, {"VOLUME_STATE", "TONE_STATE"})

Plain(s, t) ==
  /\ Ordinary(s, t)
  /\ SameLevels(s, t)
  /\ SameSource(s, t) /\ StillShown(s, t, {"SOURCE_STATE"})
  /\ t.ignore = s.ignore

\* Plain steps compose.
LEMMA PlainAgain ==
  ASSUME NEW s, NEW t, NEW u, Plain(s, t), Plain(t, u)
  PROVE  Plain(s, u)
BY DEF Plain, Ordinary, SameLife, SameLevels, SameSource, StillShown

\* Doing nothing is plain.
LEMMA PlainSame ==
  ASSUME NEW s, Shape(s)
  PROVE  Plain(s, s)
BY DEF Plain, Ordinary, SameLife, SameLevels, SameSource, StillShown

\* Steps that leave alone what the shown events are made of.
LEMMA PlainBut ==
  ASSUME NEW s, Shape(s), NEW t, But(s, t, Others \cup {"shown", "sent"}),
         Requests(s.sent) => Requests(t.sent),
         StillShown(s, t, {"SYSTEM_STATE", "VOLUME_STATE", "TONE_STATE", "SOURCE_STATE"})
  PROVE  Plain(s, t)
<1>1. /\ t.address = s.address /\ t.hu = s.hu /\ t.system = s.system
      /\ t.boot = s.boot /\ t.timer = s.timer /\ t.disco = s.disco
      /\ t.volume = s.volume /\ t.fade = s.fade /\ t.balance = s.balance /\ t.tone = s.tone
      /\ t.count = s.count /\ t.source = s.source /\ t.secondary = s.secondary
      /\ t.state = s.state /\ t.seq = s.seq /\ t.ignore = s.ignore
  BY DEF But, NodeFields, Others
<1> QED BY <1>1 DEF Plain, Ordinary, SameLife, SameLevels, SameSource, StillShown, But

\* What the shown events are made of.
LEMMA KeptFour ==
  ASSUME NEW s
  PROVE  /\ Kept(s, "SYSTEM_STATE") = s.system
         /\ Kept(s, "VOLUME_STATE") = <<s.volume, s.fade, s.balance, s.mute>>
         /\ Kept(s, "TONE_STATE") = s.tone
         /\ Kept(s, "SOURCE_STATE") = <<s.source, s.bt>>
BY DEF Kept

\* To yield events is plain.
LEMMA PlainYield ==
  ASSUME NEW s, Shape(s), NEW es
  PROVE  Plain(s, Yield(s, es))
<1>1. PICK t : t = Yield(s, es)
  OBVIOUS
<1>2. But(s, t, {"shown"}) /\ \A e : Shows(s, e) => Shows(t, e)
  BY <1>1, Yields
<1>3. But(s, t, Others \cup {"shown", "sent"}) /\ t.sent = s.sent
  BY <1>2 DEF But, NodeFields
<1> QED BY <1>1, <1>2, <1>3, PlainBut DEF StillShown

\* To send a frame is plain.
LEMMA PlainSend ==
  ASSUME NEW s, Shape(s), NEW f, f[1] = "REQUEST" => f[2] \in {"PRODUCT", "ANNOUNCE"}
  PROVE  Plain(s, Send(s, f))
<1>1. PICK t : t = Send(s, f)
  OBVIOUS
<1>2. t = [s EXCEPT !.sent = Append(s.sent, f)]
  BY <1>1 DEF Send
<1>3. "sent" \in NodeFields
  BY DEF NodeFields
<1>4. But(s, t, {"sent"}) /\ t.sent = Append(s.sent, f)
  BY <1>2, <1>3 DEF Shape, But
<1>5. \A e : Kept(t, e) = Kept(s, e)
  BY <1>4, SameKept DEF But
<1>6. t.shown = s.shown
  BY <1>4 DEF But, NodeFields
<1>7. But(s, t, Others \cup {"shown", "sent"})
  BY <1>4 DEF But
<1>8. Requests(s.sent) => Requests(t.sent)
  BY <1>4, OneMoreFrame
<1>9. StillShown(s, t, {"SYSTEM_STATE", "VOLUME_STATE", "TONE_STATE", "SOURCE_STATE"})
  BY <1>5, <1>6 DEF StillShown, Shows
<1> QED BY <1>1, <1>7, <1>8, <1>9, PlainBut

\* A change of one of the other fields is plain.
LEMMA PlainField ==
  ASSUME NEW s, Shape(s), NEW x \in Others, NEW v
  PROVE  Plain(s, [s EXCEPT ![x] = v])
<1>1. PICK t : t = [s EXCEPT ![x] = v]
  OBVIOUS
<1>2. x \in NodeFields /\ x # "shown" /\ x # "sent"
  BY DEF NodeFields, Others
<1>3. But(s, t, {x})
  BY <1>1, <1>2 DEF Shape, But
<1>4. But(s, t, Others \cup {"shown", "sent"})
  BY <1>3 DEF But
<1>5. t.shown = s.shown /\ t.sent = s.sent
  BY <1>2, <1>3 DEF But, NodeFields
<1>6. \A e \in {"SYSTEM_STATE", "VOLUME_STATE", "TONE_STATE", "SOURCE_STATE"} : Kept(t, e) = Kept(s, e)
  <2>1. /\ t.volume = s.volume /\ t.fade = s.fade /\ t.balance = s.balance /\ t.mute = s.mute
        /\ t.tone = s.tone /\ t.source = s.source /\ t.bt = s.bt /\ t.system = s.system
    BY <1>4 DEF But, NodeFields, Others
  <2> QED BY <2>1, KeptFour
<1>7. StillShown(s, t, {"SYSTEM_STATE", "VOLUME_STATE", "TONE_STATE", "SOURCE_STATE"})
  BY <1>5, <1>6 DEF StillShown, Shows
<1> QED BY <1>1, <1>4, <1>5, <1>7, PlainBut

-----------------------------------------------------------------------------
LevelsOK(s) ==
  /\ s.volume \in 0 .. VolumeMax
  /\ s.fade \in -FadeMax .. FadeMax
  /\ s.balance \in -BalanceMax .. BalanceMax
  /\ s.tone \in [1 .. 3 -> -ToneMax .. ToneMax]
  /\ s.count \in 0 .. MenuRows

LevelFields == {"volume", "fade", "balance", "mute", "tone", "count", "ignore"}

\* What a change of the levels leaves alone.
LEMMA LevelBut ==
  ASSUME NEW s, Shape(s), NEW t, But(s, t, LevelFields)
  PROVE  /\ Shape(t) /\ SameLife(s, t) /\ SameSource(s, t)
         /\ t.state = s.state /\ t.seq = s.seq /\ t.sent = s.sent
         /\ StillShown(s, t, {"SYSTEM_STATE", "SOURCE_STATE"})
         /\ (t.volume = s.volume /\ t.fade = s.fade /\ t.balance = s.balance /\ t.mute = s.mute)
              => StillShown(s, t, {"VOLUME_STATE"})
         /\ t.tone = s.tone => StillShown(s, t, {"TONE_STATE"})
<1>1. /\ t.address = s.address /\ t.hu = s.hu /\ t.system = s.system
      /\ t.boot = s.boot /\ t.timer = s.timer /\ t.disco = s.disco
      /\ t.source = s.source /\ t.secondary = s.secondary /\ t.bt = s.bt
      /\ t.state = s.state /\ t.seq = s.seq /\ t.sent = s.sent /\ t.shown = s.shown
  BY DEF But, NodeFields, LevelFields
<1>2. Shape(t)
  BY DEF But
<1> QED BY <1>1, <1>2, KeptFour DEF SameLife, SameSource, StillShown, Shows

\* A level that changed, and its event when the stereo is on.
LEMMA LevelYield ==
  ASSUME NEW s, Shape(s), NEW t, But(s, t, LevelFields),
         NEW c, NEW es, NEW u, u = YieldIf(c, t, es),
         s.system = "ON" => /\ StillShown(s, t, {"VOLUME_STATE"}) \/ (c /\ "VOLUME_STATE" \in es)
                            /\ StillShown(s, t, {"TONE_STATE"}) \/ (c /\ "TONE_STATE" \in es)
  PROVE  /\ Ordinary(s, u)
         /\ SameSource(s, u) /\ StillShown(s, u, {"SOURCE_STATE"})
         /\ SameLevels(t, u) /\ u.ignore = t.ignore
<1>1. /\ Shape(t) /\ SameLife(s, t) /\ SameSource(s, t)
      /\ t.state = s.state /\ t.seq = s.seq /\ t.sent = s.sent
      /\ StillShown(s, t, {"SYSTEM_STATE", "SOURCE_STATE"})
  BY LevelBut
<1>2. Plain(t, u) /\ (c => \A e \in es : Shows(u, e))
  <2>1. CASE c
    <3>1. u = Yield(t, es)
      BY <2>1 DEF YieldIf
    <3> QED BY <1>1, <3>1, PlainYield, Yields
  <2>2. CASE ~c
    BY <1>1, <2>2, PlainSame DEF YieldIf
  <2> QED BY <2>1, <2>2
<1>3. s.system = "ON" => StillShown(s, u, {"VOLUME_STATE", "TONE_STATE"})
  BY <1>1, <1>2 DEF StillShown, Plain, Ordinary, SameLife
<1> QED BY <1>1, <1>2, <1>3 DEF Plain, Ordinary, SameLife, SameSource, StillShown

\* The smaller of two numbers.
LEMMA MinOfTwo ==
  ASSUME NEW a \in Int, NEW b \in Int
  PROVE  Min({a, b}) = IF a <= b THEN a ELSE b
<1>1. PICK m \in {a, b} : \A y \in {a, b} : m <= y
  <2>1. a <= b \/ b <= a
    OBVIOUS
  <2> QED BY <2>1
<1>2. Min({a, b}) \in {a, b} /\ \A y \in {a, b} : Min({a, b}) <= y
  BY <1>1 DEF Min
<1> QED BY <1>2

\* The same for the larger one.
LEMMA MaxOfTwo ==
  ASSUME NEW a \in Int, NEW b \in Int
  PROVE  Max({a, b}) = IF a >= b THEN a ELSE b
<1>1. PICK m \in {a, b} : \A y \in {a, b} : m >= y
  <2>1. a <= b \/ b <= a
    OBVIOUS
  <2> QED BY <2>1
<1>2. Max({a, b}) \in {a, b} /\ \A y \in {a, b} : Max({a, b}) >= y
  BY <1>1 DEF Max
<1> QED BY <1>2

\* The fade that is told from two volumes.
LEMMA FadeBound ==
  ASSUME NEW gap \in 0 .. VolumeMax
  PROVE  gap \div FadeMultiplier \in 0 .. FadeMax
<1> USE LimitsAssumption, MultiplierAssumption, FadeAssumption
<1>1. PICK a : a = gap \div FadeMultiplier
  OBVIOUS
<1>2. PICK b : b = VolumeMax \div FadeMultiplier
  OBVIOUS
<1>3. a \in Nat /\ b \in Nat
  BY <1>1, <1>2
<1>4. a <= b
  BY <1>1, <1>2
<1> QED BY <1>1, <1>2, <1>3, <1>4

Levelled(s, t) ==
  Ordinary(s, t) /\ SameSource(s, t) /\ StillShown(s, t, {"SOURCE_STATE"}) /\ LevelsOK(t)

\* Plain steps keep the levels.
LEMMA PlainLevels ==
  ASSUME NEW s, LevelsOK(s), NEW t, Plain(s, t)
  PROVE  Levelled(s, t)
BY DEF Plain, Levelled, SameLevels, LevelsOK

\* A reported volume: the larger zone is the volume, and the node's fade stays
\* unless it has none.
LEMMA VolumeHandled ==
  ASSUME NEW s, Shape(s), LevelsOK(s), NEW f, Fits("VOLUME", f)
  PROVE  Levelled(s, HandleVolume(s, f)) /\ HandleVolume(s, f).ignore = s.ignore
<1>1. CASE f.seq # 0
  BY <1>1, PlainSame, PlainLevels DEF HandleVolume, Plain
<1>2. CASE f.seq = 0
  <2> DEFINE volume == IF f.x > f.y THEN f.x ELSE f.y
             gap    == f.x - f.y
             fade   == IF gap # 0 /\ s.fade = 0
                         THEN IF gap > 0 THEN gap \div FadeMultiplier
                                         ELSE - ((- gap) \div FadeMultiplier)
                         ELSE s.fade
             t      == [s EXCEPT !.volume = volume, !.fade = fade]
             u      == YieldIf(t # s, t, {"VOLUME_STATE"})
  <2>1. u = HandleVolume(s, f)
    BY <1>2 DEF HandleVolume
  <2>2. f.x \in 0 .. VolumeMax /\ f.y \in 0 .. VolumeMax
    BY DEF Fits
  <2>3. volume \in 0 .. VolumeMax
    BY <2>2, LimitsAssumption
  <2>4. fade \in -FadeMax .. FadeMax
    <3>1. CASE ~(gap # 0 /\ s.fade = 0)
      BY <3>1 DEF LevelsOK
    <3>2. CASE gap # 0 /\ s.fade = 0 /\ gap > 0
      <4>1. gap \in 0 .. VolumeMax
        BY <2>2, <3>2, LimitsAssumption
      <4>2. gap \div FadeMultiplier \in 0 .. FadeMax
        BY <4>1, FadeBound
      <4>3. fade = gap \div FadeMultiplier
        BY <3>2
      <4> HIDE DEF fade, gap
      <4> QED BY <4>2, <4>3, LimitsAssumption
    <3>3. CASE gap # 0 /\ s.fade = 0 /\ ~(gap > 0)
      <4>1. -gap \in 0 .. VolumeMax
        BY <2>2, <3>3, LimitsAssumption
      <4>2. (-gap) \div FadeMultiplier \in 0 .. FadeMax
        BY <4>1, FadeBound
      <4>3. fade = - ((-gap) \div FadeMultiplier)
        BY <3>3
      <4> HIDE DEF fade, gap
      <4> QED BY <4>2, <4>3, LimitsAssumption
    <3> QED BY <3>1, <3>2, <3>3
  <2> HIDE DEF volume, fade
  <2>5. But(s, t, LevelFields) /\ t.volume = volume /\ t.fade = fade
    BY DEF Shape, But, LevelFields, NodeFields
  <2>6. t.balance = s.balance /\ t.tone = s.tone /\ t.count = s.count /\ t.ignore = s.ignore
    BY DEF Shape, NodeFields
  <2>7. PICK c : c = (t # s)
    OBVIOUS
  <2>8. PICK r : r = t
    OBVIOUS
  <2>9. u = YieldIf(c, r, {"VOLUME_STATE"}) /\ (c \/ r = s)
    BY <2>7, <2>8
  <2>10. But(s, r, LevelFields) /\ StillShown(s, r, {"TONE_STATE"})
    BY <2>5, <2>6, <2>8, LevelBut
  <2>11. r = s => StillShown(s, r, {"VOLUME_STATE"})
    BY DEF StillShown
  <2> HIDE DEF t, u
  <2>12. /\ Ordinary(s, u)
         /\ SameSource(s, u) /\ StillShown(s, u, {"SOURCE_STATE"})
         /\ SameLevels(r, u) /\ u.ignore = r.ignore
    BY <2>9, <2>10, <2>11, LevelYield
  <2>13. LevelsOK(u) /\ u.ignore = s.ignore
    BY <2>3, <2>4, <2>5, <2>6, <2>8, <2>12 DEF SameLevels, LevelsOK
  <2> QED BY <2>1, <2>12, <2>13 DEF Levelled
<1> QED BY <1>1, <1>2

\* A reported mute.
LEMMA MuteHandled ==
  ASSUME NEW s, Shape(s), LevelsOK(s), NEW f
  PROVE  Levelled(s, HandleMute(s, f)) /\ HandleMute(s, f).ignore = s.ignore
<1> DEFINE t == [s EXCEPT !.mute = (f.x = 1)]
           u == YieldIf(t # s /\ s.system = "ON", t, {"VOLUME_STATE"})
<1>1. HandleMute(s, f) = IF f.seq = 0 THEN u ELSE s
  BY DEF HandleMute
<1>2. Levelled(s, s)
  BY PlainSame, PlainLevels
<1>3. /\ But(s, t, LevelFields)
      /\ t.volume = s.volume /\ t.fade = s.fade /\ t.balance = s.balance
      /\ t.tone = s.tone /\ t.count = s.count /\ t.ignore = s.ignore
  BY DEF Shape, But, LevelFields, NodeFields
<1>4. PICK c : c = (t # s /\ s.system = "ON")
  OBVIOUS
<1>5. PICK r : r = t
  OBVIOUS
<1>6. u = YieldIf(c, r, {"VOLUME_STATE"}) /\ (s.system = "ON" => c \/ r = s)
  BY <1>4, <1>5
<1>7. But(s, r, LevelFields) /\ StillShown(s, r, {"TONE_STATE"})
  BY <1>3, <1>5, LevelBut
<1>8. r = s => StillShown(s, r, {"VOLUME_STATE"})
  BY DEF StillShown
<1> HIDE DEF t, u
<1>9. /\ Ordinary(s, u)
      /\ SameSource(s, u) /\ StillShown(s, u, {"SOURCE_STATE"})
      /\ SameLevels(r, u) /\ u.ignore = r.ignore
  BY <1>6, <1>7, <1>8, LevelYield
<1>10. LevelsOK(u) /\ u.ignore = s.ignore
  BY <1>3, <1>5, <1>9 DEF SameLevels, LevelsOK
<1> QED BY <1>1, <1>2, <1>9, <1>10 DEF Levelled

\* A reported balance.
LEMMA BalanceHandled ==
  ASSUME NEW s, Shape(s), LevelsOK(s), NEW f, Fits("BALANCE", f)
  PROVE  Levelled(s, HandleBalance(s, f)) /\ HandleBalance(s, f).ignore = s.ignore
<1> DEFINE t == [s EXCEPT !.balance = f.y]
           u == YieldIf(t # s /\ s.system = "ON", t, {"VOLUME_STATE"})
<1>1. HandleBalance(s, f) = IF f.seq = 0 /\ f.x = 0 THEN u ELSE s
  BY DEF HandleBalance
<1>2. Levelled(s, s)
  BY PlainSame, PlainLevels
<1>3. /\ But(s, t, LevelFields) /\ t.balance = f.y
      /\ t.volume = s.volume /\ t.fade = s.fade
      /\ t.tone = s.tone /\ t.count = s.count /\ t.ignore = s.ignore
  BY DEF Shape, But, LevelFields, NodeFields
<1>4. PICK c : c = (t # s /\ s.system = "ON")
  OBVIOUS
<1>5. PICK r : r = t
  OBVIOUS
<1>6. u = YieldIf(c, r, {"VOLUME_STATE"}) /\ (s.system = "ON" => c \/ r = s)
  BY <1>4, <1>5
<1>7. But(s, r, LevelFields) /\ StillShown(s, r, {"TONE_STATE"})
  BY <1>3, <1>5, LevelBut
<1>8. r = s => StillShown(s, r, {"VOLUME_STATE"})
  BY DEF StillShown
<1> HIDE DEF t, u
<1>9. /\ Ordinary(s, u)
      /\ SameSource(s, u) /\ StillShown(s, u, {"SOURCE_STATE"})
      /\ SameLevels(r, u) /\ u.ignore = r.ignore
  BY <1>6, <1>7, <1>8, LevelYield
<1>10. f.y \in -BalanceMax .. BalanceMax
  BY DEF Fits
<1>11. LevelsOK(u) /\ u.ignore = s.ignore
  BY <1>3, <1>5, <1>9, <1>10 DEF SameLevels, LevelsOK
<1> QED BY <1>1, <1>2, <1>9, <1>11 DEF Levelled

\* A reported tone, in two frames.
LEMMA ToneHandled ==
  ASSUME NEW s, Shape(s), LevelsOK(s), NEW f, Fits("TONE", f)
  PROVE  Levelled(s, HandleTone(s, f)) /\ (f.seq # 0 => HandleTone(s, f).ignore = s.ignore)
<1>1. CASE f.seq = 0 /\ f.x # 0
  <2> DEFINE t == [s EXCEPT !.ignore = TRUE]
  <2>1. /\ But(s, t, LevelFields) /\ t.volume = s.volume /\ t.fade = s.fade /\ t.balance = s.balance
        /\ t.mute = s.mute /\ t.tone = s.tone /\ t.count = s.count
    BY DEF Shape, But, LevelFields, NodeFields
  <2>2. HandleTone(s, f) = t
    BY <1>1 DEF HandleTone
  <2> HIDE DEF t
  <2>3. /\ Shape(t) /\ SameLife(s, t) /\ SameSource(s, t)
        /\ t.state = s.state /\ t.seq = s.seq /\ t.sent = s.sent
        /\ StillShown(s, t, {"SYSTEM_STATE", "SOURCE_STATE"})
        /\ StillShown(s, t, {"VOLUME_STATE"}) /\ StillShown(s, t, {"TONE_STATE"})
    BY <2>1, LevelBut
  <2>4. Ordinary(s, t) /\ StillShown(s, t, {"SOURCE_STATE"}) /\ LevelsOK(t)
    BY <2>1, <2>3 DEF Ordinary, StillShown, LevelsOK
  <2> QED BY <1>1, <2>2, <2>3, <2>4 DEF Levelled
<1>2. CASE ~(f.seq = 0 /\ f.x # 0)
  <2> DEFINE tone == CASE f.seq = 0 -> [s.tone EXCEPT ![1] = f.y]
                       [] f.seq = 1 -> [s.tone EXCEPT ![2] = f.x, ![3] = f.y]
                       [] OTHER -> s.tone
             t == CASE f.seq = 0 -> [s EXCEPT !.tone[1] = f.y]
                    [] f.seq = 1 -> [s EXCEPT !.tone = [@ EXCEPT ![2] = f.x, ![3] = f.y]]
                    [] OTHER -> s
             u == YieldIf(t # s /\ s.system = "ON", t, {"TONE_STATE"})
  <2>1. HandleTone(s, f) = u
    BY <1>2 DEF HandleTone
  <2>2. tone \in [1 .. 3 -> -ToneMax .. ToneMax]
    <3>1. s.tone \in [1 .. 3 -> -ToneMax .. ToneMax]
      BY DEF LevelsOK
    <3>2. f.y \in -ToneMax .. ToneMax /\ (f.seq # 0 => f.x \in -ToneMax .. ToneMax)
      BY DEF Fits
    <3> QED BY <3>1, <3>2
  <2>3. But(s, t, LevelFields) /\ t.tone = tone
    <3>1. CASE f.seq = 0
      BY <3>1 DEF Shape, But, LevelFields, NodeFields
    <3>2. CASE f.seq = 1
      BY <3>2 DEF Shape, But, LevelFields, NodeFields
    <3>3. CASE f.seq # 0 /\ f.seq # 1
      BY <3>3 DEF Shape, But, LevelFields, NodeFields
    <3> QED BY <3>1, <3>2, <3>3
  <2>4. /\ t.volume = s.volume /\ t.fade = s.fade /\ t.balance = s.balance
        /\ t.mute = s.mute /\ t.count = s.count /\ t.ignore = s.ignore
    BY DEF Shape, NodeFields
  <2>5. PICK c : c = (t # s /\ s.system = "ON")
    OBVIOUS
  <2>6. PICK r : r = t
    OBVIOUS
  <2>7. u = YieldIf(c, r, {"TONE_STATE"}) /\ (s.system = "ON" => c \/ r = s)
    BY <2>5, <2>6
  <2>8. But(s, r, LevelFields) /\ StillShown(s, r, {"VOLUME_STATE"})
    BY <2>3, <2>4, <2>6, LevelBut
  <2>9. r = s => StillShown(s, r, {"TONE_STATE"})
    BY DEF StillShown
  <2> HIDE DEF t, u, tone
  <2>10. /\ Ordinary(s, u)
         /\ SameSource(s, u) /\ StillShown(s, u, {"SOURCE_STATE"})
         /\ SameLevels(r, u) /\ u.ignore = r.ignore
    BY <2>7, <2>8, <2>9, LevelYield
  <2>11. LevelsOK(u) /\ u.ignore = s.ignore
    BY <2>2, <2>3, <2>4, <2>6, <2>10 DEF SameLevels, LevelsOK
  <2> QED BY <2>1, <2>10, <2>11 DEF Levelled
<1> QED BY <1>1, <1>2

\* A count of menu items, limited to what the display has rows for.
LEMMA CountHandled ==
  ASSUME NEW s, Shape(s), LevelsOK(s), NEW f, Fits("MENU_ITEM_COUNT", f)
  PROVE  Levelled(s, HandleMenuItemCount(s, f)) /\ HandleMenuItemCount(s, f).ignore = s.ignore
<1>1. CASE f.seq # 0
  BY <1>1, PlainSame, PlainLevels DEF HandleMenuItemCount, Plain
<1>2. CASE f.seq = 0
  <2>1. PICK rows : rows = Min({f.y, MenuRows})
    OBVIOUS
  <2>2. rows \in 0 .. MenuRows
    <3>1. f.y \in Nat /\ MenuRows = 5
      BY DEF Fits, MenuRows
    <3> QED BY <2>1, <3>1, MinOfTwo
  <2> DEFINE t == [s EXCEPT !.count = rows]
             u == Yield(t, {"SETTINGS_MENU_STATE"})
             frame == <<"LIST", s.source, rows>>
  <2>3. HandleMenuItemCount(s, f) = Send(u, frame)
    BY <1>2, <2>1 DEF HandleMenuItemCount
  <2>4. /\ But(s, t, LevelFields) /\ t.count = rows
        /\ t.volume = s.volume /\ t.fade = s.fade /\ t.balance = s.balance
        /\ t.mute = s.mute /\ t.tone = s.tone /\ t.ignore = s.ignore
    BY DEF Shape, But, LevelFields, NodeFields
  <2>5. frame[1] # "REQUEST"
    OBVIOUS
  <2> HIDE DEF t, frame
  <2>6. /\ Shape(t) /\ SameLife(s, t) /\ SameSource(s, t)
        /\ t.state = s.state /\ t.seq = s.seq /\ t.sent = s.sent
        /\ StillShown(s, t, {"SYSTEM_STATE", "SOURCE_STATE"})
        /\ StillShown(s, t, {"VOLUME_STATE"}) /\ StillShown(s, t, {"TONE_STATE"})
    BY <2>4, LevelBut
  <2>7. Ordinary(s, t) /\ StillShown(s, t, {"SOURCE_STATE"})
    BY <2>6 DEF Ordinary, StillShown
  <2>8. Plain(t, u)
    BY <2>6, PlainYield
  <2> HIDE DEF u
  <2>9. Plain(u, Send(u, frame))
    BY <2>5, <2>8, PlainSend DEF Plain, Ordinary
  <2>10. Plain(t, Send(u, frame))
    BY <2>8, <2>9, PlainAgain
  <2>11. LevelsOK(t)
    BY <2>2, <2>4 DEF LevelsOK
  <2>12. PICK v : v = Send(u, frame)
    OBVIOUS
  <2>13. Ordinary(s, v) /\ SameSource(s, v) /\ StillShown(s, v, {"SOURCE_STATE"})
    BY <2>6, <2>7, <2>10, <2>12 DEF Plain, Ordinary, SameLife, SameSource, StillShown
  <2> QED BY <2>3, <2>4, <2>10, <2>11, <2>12, <2>13 DEF Plain, SameLevels, Levelled, LevelsOK
<1> QED BY <1>1, <1>2

-----------------------------------------------------------------------------
(* The reports of tracks, the radio, inputs and the menu. *)

\* To yield events under a condition is plain.
LEMMA PlainYieldIf ==
  ASSUME NEW s, Shape(s), NEW c, NEW es
  PROVE  Plain(s, YieldIf(c, s, es))
BY PlainYield, PlainSame DEF YieldIf

\* A plain step leaves the record its fields.
LEMMA PlainShape ==
  ASSUME NEW s, NEW t, Plain(s, t)
  PROVE  Shape(t)
BY DEF Plain, Ordinary

\* Reports of the playback, the times, the texts, the frequency and the gain.
LEMMA TextsHandled ==
  ASSUME NEW s, Shape(s), NEW f
  PROVE  /\ Plain(s, HandleTrackPlayback(s, f))
         /\ Plain(s, HandleTrackTimeElapsed(s, f))
         /\ Plain(s, HandleTrackString(s, f))
         /\ Plain(s, HandleRadioFrequency(s, f))
         /\ Plain(s, HandleInputGain(s, f))
<1>1. /\ {"playback", "text", "frequency", "gain"} \subseteq Others
      /\ \A x \in Others : \A v : Plain(s, [s EXCEPT ![x] = v])
  BY PlainField DEF Others
<1>2. Plain(s, s)
  BY PlainSame
<1>3. ASSUME NEW t, Plain(s, t), NEW c, NEW es PROVE Plain(s, YieldIf(c, t, es))
  BY <1>3, PlainShape, PlainYieldIf, PlainAgain
<1>4. Plain(s, HandleTrackPlayback(s, f))
  <2>1. HandleTrackPlayback(s, f) \in
          {[s EXCEPT !.playback = f.y], YieldIf(s.system = "ON", s, {"TRACK_PLAYBACK_STATE"}), s}
    BY DEF HandleTrackPlayback
  <2> QED BY <1>1, <1>2, <1>3, <2>1
<1>5. Plain(s, HandleTrackTimeElapsed(s, f))
  BY <1>2, <1>3 DEF HandleTrackTimeElapsed
<1>6. Plain(s, HandleTrackString(s, f))
  <2>1. Plain(s, [s EXCEPT !.text[s.state] = Text(@, f)])
    BY <1>1
  <2> QED BY <1>3, <2>1 DEF HandleTrackString
<1>7. Plain(s, HandleRadioFrequency(s, f))
  <2>1. Plain(s, [s EXCEPT !.frequency = f.x])
    BY <1>1
  <2> QED BY <1>2, <1>3, <2>1 DEF HandleRadioFrequency
<1>8. Plain(s, HandleInputGain(s, f))
  <2>1. Plain(s, [s EXCEPT !.gain = f.y])
    BY <1>1
  <2> QED BY <1>2, <1>3, <2>1 DEF HandleInputGain
<1> QED BY <1>4, <1>5, <1>6, <1>7, <1>8

\* Reports of the settings menu.
LEMMA MenusHandled ==
  ASSUME NEW s, Shape(s), NEW f
  PROVE  Plain(s, HandleMenuLoad(s, f)) /\ Plain(s, HandleMenuItemList(s, f))
<1>1. /\ {"item", "page", "entry"} \subseteq Others
      /\ \A x \in Others : \A v : Plain(s, [s EXCEPT ![x] = v])
  BY PlainField DEF Others
<1>2. Plain(s, s)
  BY PlainSame
<1>3. Plain(s, HandleMenuLoad(s, f))
  <2>1. PICK t : t = [s EXCEPT !.page = f.x]
    OBVIOUS
  <2>2. Plain(s, t)
    BY <1>1, <2>1
  <2>3. Plain(s, Yield(t, {"SETTINGS_EXIT_STATE"}))
    BY <2>2, PlainShape, PlainYield, PlainAgain
  <2>4. PICK frame : frame = <<"COUNT", s.source>>
    OBVIOUS
  <2>5. frame[1] # "REQUEST"
    BY <2>4
  <2>6. Plain(t, Send(t, frame))
    BY <2>2, <2>5, PlainShape, PlainSend
  <2>7. Plain(s, Send(t, frame))
    BY <2>2, <2>6, PlainAgain
  <2>8. HandleMenuLoad(s, f) \in
          {[s EXCEPT !.item = f.y], Send(t, frame), Yield(t, {"SETTINGS_EXIT_STATE"}), t, s}
    BY <2>1, <2>4 DEF HandleMenuLoad
  <2>9. Plain(s, [s EXCEPT !.item = f.y])
    BY <1>1
  <2> QED BY <1>2, <2>2, <2>3, <2>7, <2>8, <2>9
<1>4. Plain(s, HandleMenuItemList(s, f))
  <2>1. \A v : Plain(s, [s EXCEPT !.entry = v])
    BY <1>1
  <2>2. \E c, v : HandleMenuItemList(s, f) = YieldIf(c, [s EXCEPT !.entry = v], {"SETTINGS_ITEM_STATE"})
    BY DEF HandleMenuItemList
  <2>3. PICK c, v : HandleMenuItemList(s, f) = YieldIf(c, [s EXCEPT !.entry = v], {"SETTINGS_ITEM_STATE"})
    BY <2>2
  <2>4. PICK t : t = [s EXCEPT !.entry = v]
    OBVIOUS
  <2>5. Plain(s, t) /\ HandleMenuItemList(s, f) = YieldIf(c, t, {"SETTINGS_ITEM_STATE"})
    BY <2>1, <2>3, <2>4
  <2>6. Plain(t, YieldIf(c, t, {"SETTINGS_ITEM_STATE"}))
    BY <2>5, PlainShape, PlainYieldIf
  <2> QED BY <2>5, <2>6, PlainAgain
<1> QED BY <1>3, <1>4

-----------------------------------------------------------------------------
(* Discovery, boot and power. *)

LifeFields == {"hu", "system", "boot", "disco", "timer", "shown", "sent"}

LifeOK(s) ==
  /\ s.address \in {None, Address} /\ s.hu \in {None, Stereo}
  /\ s.system \in Systems /\ s.boot \in BootStates
  /\ s.disco \in Tickers /\ s.timer \in Tickers
  /\ s.system = "ON" => s.timer = "paused" /\ s.boot = "UNKNOWN"
  /\ s.system # "UNAVAILABLE" => Shows(s, "SYSTEM_STATE")
  /\ s.system = "ON" => Shows(s, "VOLUME_STATE") /\ Shows(s, "TONE_STATE")

NodeOK(s) == Shape(s) /\ LifeOK(s) /\ LevelsOK(s) /\ Requests(s.sent)

\* A step of the life of the node.
Lives(s, t) ==
  /\ Shape(t)
  /\ t.address = s.address /\ t.state = s.state /\ t.seq = s.seq /\ t.ignore = s.ignore
  /\ SameLevels(s, t) /\ SameSource(s, t)
  /\ LifeOK(t)
  /\ Requests(s.sent) => Requests(t.sent)
  /\ s.hu # None => t.hu # None
  /\ t.system = "ON" => \/ Shows(t, "SOURCE_STATE")
                        \/ s.system = "ON" /\ StillShown(s, t, {"SOURCE_STATE"})

\* What a change of the life leaves alone.
LEMMA LifeBut ==
  ASSUME NEW s, NEW t, But(s, t, LifeFields)
  PROVE  /\ Shape(t)
         /\ t.address = s.address /\ t.state = s.state /\ t.seq = s.seq /\ t.ignore = s.ignore
         /\ SameLevels(s, t) /\ SameSource(s, t)
         /\ t.mute = s.mute /\ t.bt = s.bt
<1>1. Shape(t)
  BY DEF But
<1>2. /\ t.address = s.address /\ t.state = s.state /\ t.seq = s.seq /\ t.ignore = s.ignore
      /\ t.volume = s.volume /\ t.fade = s.fade /\ t.balance = s.balance /\ t.tone = s.tone
      /\ t.count = s.count /\ t.source = s.source /\ t.secondary = s.secondary
      /\ t.mute = s.mute /\ t.bt = s.bt
  BY DEF But, NodeFields, LifeFields
<1> QED BY <1>1, <1>2 DEF SameLevels, SameSource

\* What a change of these fields leaves shown.
LEMMA LifeShown ==
  ASSUME NEW s, NEW t, But(s, t, LifeFields), t.shown = s.shown
  PROVE  /\ StillShown(s, t, {"VOLUME_STATE", "TONE_STATE", "SOURCE_STATE"})
         /\ t.system = s.system => StillShown(s, t, {"SYSTEM_STATE"})
<1>1. /\ t.volume = s.volume /\ t.fade = s.fade /\ t.balance = s.balance /\ t.tone = s.tone
      /\ t.source = s.source /\ t.mute = s.mute /\ t.bt = s.bt
  BY LifeBut DEF SameLevels, SameSource
<1>2. /\ \A e \in {"VOLUME_STATE", "TONE_STATE", "SOURCE_STATE"} : Kept(t, e) = Kept(s, e)
      /\ t.system = s.system => Kept(t, "SYSTEM_STATE") = Kept(s, "SYSTEM_STATE")
  BY <1>1, KeptFour
<1> QED BY <1>2 DEF StillShown, Shows

\* Plain steps are steps of the life.
LEMMA PlainLives ==
  ASSUME NEW s, LifeOK(s), NEW t, Plain(s, t)
  PROVE  Lives(s, t)
BY DEF Plain, Ordinary, SameLife, StillShown, Lives, LifeOK

\* Steps of the life compose.
LEMMA LivesAgain ==
  ASSUME NEW s, NEW t, NEW u, Lives(s, t), Lives(t, u)
  PROVE  Lives(s, u)
BY DEF Lives, SameLevels, SameSource, StillShown

\* A request for the product: the discovery ticker starts again.
LEMMA DiscoverySent ==
  ASSUME NEW s, Shape(s), LifeOK(s)
  PROVE  Lives(s, SendStereoDiscovery(s))
<1> DEFINE t == [s EXCEPT !.disco = Reset(@)]
<1>1. PICK frame : frame = <<"REQUEST", "PRODUCT">>
  OBVIOUS
<1>2. SendStereoDiscovery(s) = Send(t, frame)
  BY <1>1 DEF SendStereoDiscovery
<1>3. /\ But(s, t, LifeFields) /\ t.disco \in {"paused", "running"}
      /\ t.hu = s.hu /\ t.system = s.system /\ t.boot = s.boot /\ t.timer = s.timer
      /\ t.shown = s.shown /\ t.sent = s.sent
  BY DEF Shape, But, NodeFields, LifeFields, Reset
<1> HIDE DEF t
<1>4. Lives(s, t)
  BY <1>3, LifeBut, LifeShown DEF Lives, LifeOK, Tickers, StillShown
<1>5. Plain(t, Send(t, frame))
  BY <1>1, <1>4, PlainSend DEF Lives
<1>6. Lives(t, Send(t, frame))
  BY <1>4, <1>5, PlainLives DEF Lives
<1> QED BY <1>2, <1>4, <1>6, LivesAgain

\* The requests for the stereo's state.
LEMMA RequestsSent ==
  ASSUME NEW s, Shape(s), LifeOK(s)
  PROVE  Plain(s, SendStateRequests(s))
<1>1. PICK a, b : a = <<"STEREO">> /\ b = <<"0C">>
  OBVIOUS
<1>2. PICK t : t = Send(s, a)
  OBVIOUS
<1>3. Plain(s, t)
  BY <1>1, <1>2, PlainSend
<1>4. Plain(t, Send(t, b))
  BY <1>1, <1>3, PlainShape, PlainSend
<1>5. SendStateRequests(s) = Send(t, b)
  BY <1>1, <1>2 DEF SendStateRequests
<1> QED BY <1>3, <1>4, <1>5, PlainAgain

\* The head unit answered discovery: a boot begins.
LEMMA BootBegun ==
  ASSUME NEW s, Shape(s), LifeOK(s)
  PROVE  /\ Lives(s, BootInit(s, Stereo))
         /\ BootInit(s, Stereo).system = "BOOT"
<1> DEFINE t == [s EXCEPT !.hu = Stereo, !.disco = "paused", !.boot = "DISCOVERED",
                          !.timer = "running", !.system = "BOOT"]
<1>1. PICK u : u = BootInit(s, Stereo)
  OBVIOUS
<1>2. u = Yield(t, {"SYSTEM_STATE"})
  BY <1>1 DEF BootInit
<1>3. /\ But(s, t, LifeFields)
      /\ t.hu = Stereo /\ t.disco = "paused" /\ t.boot = "DISCOVERED"
      /\ t.timer = "running" /\ t.system = "BOOT" /\ t.sent = s.sent
  BY DEF Shape, But, NodeFields, LifeFields
<1> HIDE DEF t
<1>4. But(t, u, {"shown"}) /\ Shows(u, "SYSTEM_STATE")
  BY <1>2, <1>3, Yields DEF But
<1>5. But(s, u, LifeFields)
  BY <1>3, <1>4, BothBut DEF But, LifeFields
<1>6. /\ u.hu = Stereo /\ u.disco = "paused" /\ u.boot = "DISCOVERED"
      /\ u.timer = "running" /\ u.system = "BOOT" /\ u.sent = s.sent
  BY <1>3, <1>4 DEF But, NodeFields
<1> QED BY <1>1, <1>4, <1>5, <1>6, LifeBut, NoneAssumption
           DEF Lives, LifeOK, Tickers, BootStates, Systems

\* The two later stages of a boot.
LEMMA BootStepped ==
  ASSUME NEW s, Shape(s), LifeOK(s), s.system # "ON"
  PROVE  Lives(s, BootAnnounce(s)) /\ Lives(s, BootRequest(s))
<1>1. ASSUME NEW b \in BootStates, NEW t, t = [s EXCEPT !.boot = b, !.timer = Reset(@)]
      PROVE  Lives(s, t)
  <2>1. /\ But(s, t, LifeFields) /\ t.timer \in {"paused", "running"}
        /\ t.hu = s.hu /\ t.system = s.system /\ t.boot = b /\ t.disco = s.disco
        /\ t.shown = s.shown /\ t.sent = s.sent
    BY <1>1 DEF Shape, But, NodeFields, LifeFields, Reset
  <2> QED BY <2>1, LifeBut, LifeShown DEF Lives, LifeOK, Tickers, StillShown
<1>2. Lives(s, BootAnnounce(s))
  <2>1. PICK t : t = [s EXCEPT !.boot = "ANNOUNCED", !.timer = Reset(@)]
    OBVIOUS
  <2>2. PICK frame : frame = <<"REQUEST", "ANNOUNCE">>
    OBVIOUS
  <2>3. BootAnnounce(s) = Send(t, frame)
    BY <2>1, <2>2 DEF BootAnnounce
  <2>4. Lives(s, t)
    BY <1>1, <2>1 DEF BootStates
  <2>5. Plain(t, Send(t, frame))
    BY <2>2, <2>4, PlainSend DEF Lives
  <2> QED BY <2>3, <2>4, <2>5, PlainLives, LivesAgain DEF Lives
<1>3. Lives(s, BootRequest(s))
  <2>1. PICK t : t = [s EXCEPT !.boot = "REQUESTED", !.timer = Reset(@)]
    OBVIOUS
  <2>2. BootRequest(s) = SendStateRequests(t)
    BY <2>1 DEF BootRequest
  <2>3. Lives(s, t)
    BY <1>1, <2>1 DEF BootStates
  <2>4. Plain(t, SendStateRequests(t))
    BY <2>3, RequestsSent DEF Lives
  <2> QED BY <2>2, <2>3, <2>4, PlainLives, LivesAgain DEF Lives
<1> QED BY <1>2, <1>3

\* The end of a boot shows everything.
LEMMA BootEnded ==
  ASSUME NEW s, Shape(s), NEW u, u = BootComplete(s)
  PROVE  /\ But(s, u, {"boot", "timer", "shown"})
         /\ u.boot = "UNKNOWN" /\ u.timer = "paused"
         /\ Shows(u, "SYSTEM_STATE") /\ Shows(u, "VOLUME_STATE")
         /\ Shows(u, "TONE_STATE") /\ Shows(u, "SOURCE_STATE")
<1> DEFINE t == [s EXCEPT !.boot = "UNKNOWN", !.timer = "paused"]
<1>1. PICK es : es = {"VOLUME_STATE", "TONE_STATE", "SOURCE_STATE", "SYSTEM_STATE"} \cup SourceEvents(s.source)
  OBVIOUS
<1>2. u = Yield(t, es)
  BY <1>1 DEF BootComplete
<1>3. But(s, t, {"boot", "timer"}) /\ t.boot = "UNKNOWN" /\ t.timer = "paused"
  BY DEF Shape, But, NodeFields
<1> HIDE DEF t
<1>4. But(t, u, {"shown"}) /\ \A e \in es : Shows(u, e)
  BY <1>2, <1>3, Yields DEF But
<1>5. But(s, u, {"boot", "timer"} \cup {"shown"})
  BY <1>3, <1>4, BothBut
<1>6. u.boot = "UNKNOWN" /\ u.timer = "paused"
  BY <1>3, <1>4 DEF But, NodeFields
<1> QED BY <1>1, <1>4, <1>5, <1>6 DEF But

\* The same after the stereo turned out to be on or off.
LEMMA BootEndedIn ==
  ASSUME NEW s, Shape(s), LifeOK(s), NEW y \in {"ON", "OFF"},
         NEW u, u = BootComplete([s EXCEPT !.system = y])
  PROVE  Lives(s, u) /\ u.system = y
<1> DEFINE t == [s EXCEPT !.system = y]
<1>1. But(s, t, {"system"}) /\ t.system = y
  BY DEF Shape, But, NodeFields
<1>2. u = BootComplete(t)
  OBVIOUS
<1> HIDE DEF t
<1>3. /\ But(t, u, {"boot", "timer", "shown"})
      /\ u.boot = "UNKNOWN" /\ u.timer = "paused"
      /\ Shows(u, "SYSTEM_STATE") /\ Shows(u, "VOLUME_STATE")
      /\ Shows(u, "TONE_STATE") /\ Shows(u, "SOURCE_STATE")
  BY <1>1, <1>2, BootEnded DEF But
<1>4. But(s, u, LifeFields)
  BY <1>1, <1>3, BothBut DEF But, LifeFields
<1>5. u.system = y /\ u.hu = s.hu /\ u.disco = s.disco /\ u.sent = s.sent /\ u.address = s.address
  BY <1>1, <1>3 DEF But, NodeFields
<1> QED BY <1>3, <1>4, <1>5, LifeBut DEF Lives, LifeOK, Tickers, BootStates, Systems

\* A report of the power: a power on begins, or the stereo is off.
LEMMA PowerHandled ==
  ASSUME NEW s, Shape(s), LifeOK(s), NEW power \in BOOLEAN
  PROVE  Lives(s, UpdatePower(s, power))
<1>1. Lives(s, s)
  BY PlainSame, PlainLives
<1>2. CASE s.system = "UNAVAILABLE"
  BY <1>2, DiscoverySent DEF UpdatePower
<1>3. CASE s.system # "UNAVAILABLE" /\ s.system = (IF power THEN "ON" ELSE "OFF")
  BY <1>1, <1>3 DEF UpdatePower
<1>4. CASE s.system # "UNAVAILABLE" /\ s.system # (IF power THEN "ON" ELSE "OFF")
  <2>1. UpdatePower(s, power) = BootPower(s, power)
    BY <1>4 DEF UpdatePower
  <2>2. CASE power /\ s.system = "POWER_ON"
    BY <1>1, <2>1, <2>2 DEF BootPower
  <2>3. CASE power /\ s.system # "POWER_ON"
    <3> DEFINE t == [s EXCEPT !.timer = Reset(@), !.system = "POWER_ON"]
    <3>1. PICK on : on = Yield(t, {"SYSTEM_STATE"})
      OBVIOUS
    <3>2. PICK more : more = (IF s.boot = "REQUESTED" THEN on ELSE SendStateRequests(on))
      OBVIOUS
    <3>3. PICK u : u = [more EXCEPT !.boot = "POWERING"]
      OBVIOUS
    <3>4. UpdatePower(s, power) = u
      BY <2>1, <2>3, <3>1, <3>2, <3>3 DEF BootPower
    <3>5. /\ But(s, t, LifeFields) /\ t.timer \in {"paused", "running"} /\ t.system = "POWER_ON"
          /\ t.hu = s.hu /\ t.boot = s.boot /\ t.disco = s.disco
          /\ t.shown = s.shown /\ t.sent = s.sent
      BY DEF Shape, But, NodeFields, LifeFields, Reset
    <3> HIDE DEF t
    <3>6. But(t, on, {"shown"}) /\ Shows(on, "SYSTEM_STATE")
      BY <3>1, <3>5, Yields DEF But
    <3>7. But(s, on, LifeFields)
      BY <3>5, <3>6, BothBut DEF But, LifeFields
    <3>8. /\ on.timer \in {"paused", "running"} /\ on.system = "POWER_ON"
          /\ on.hu = s.hu /\ on.boot = s.boot /\ on.disco = s.disco /\ on.sent = s.sent
      BY <3>5, <3>6 DEF But, NodeFields
    <3>9. Lives(s, on)
      BY <3>6, <3>7, <3>8, LifeBut DEF Lives, LifeOK, Tickers, Systems
    <3>10. Plain(on, more)
      BY <3>2, <3>9, PlainSame, RequestsSent DEF Lives
    <3>11. Lives(s, more)
      BY <3>9, <3>10, PlainLives, LivesAgain DEF Lives
    <3>12. more.system = "POWER_ON"
      BY <3>8, <3>10 DEF Plain, Ordinary, SameLife
    <3>13. Lives(more, u)
      <4>1. /\ But(more, u, LifeFields) /\ u.boot = "POWERING"
            /\ u.hu = more.hu /\ u.system = more.system /\ u.timer = more.timer /\ u.disco = more.disco
            /\ u.shown = more.shown /\ u.sent = more.sent
        BY <3>3, <3>11 DEF Lives, Shape, But, NodeFields, LifeFields
      <4>2. LifeOK(more)
        BY <3>11 DEF Lives
      <4> QED BY <3>12, <4>1, <4>2, LifeBut, LifeShown DEF Lives, LifeOK, BootStates, StillShown
    <3> QED BY <3>4, <3>11, <3>13, LivesAgain
  <2>4. CASE ~power /\ s.system = "BOOT"
    BY <2>1, <2>4, BootEndedIn DEF BootPower
  <2>5. CASE ~power /\ s.system # "BOOT"
    <3> DEFINE t == [s EXCEPT !.system = "OFF"]
    <3>1. PICK off : off = Yield(t, {"SYSTEM_STATE"})
      OBVIOUS
    <3>2. UpdatePower(s, power) = off
      BY <2>1, <2>5, <3>1 DEF BootPower
    <3>3. /\ But(s, t, LifeFields) /\ t.system = "OFF" /\ t.timer = s.timer
          /\ t.hu = s.hu /\ t.boot = s.boot /\ t.disco = s.disco /\ t.sent = s.sent
      BY DEF Shape, But, NodeFields, LifeFields
    <3> HIDE DEF t
    <3>4. But(t, off, {"shown"}) /\ Shows(off, "SYSTEM_STATE")
      BY <3>1, <3>3, Yields DEF But
    <3>5. But(s, off, LifeFields)
      BY <3>3, <3>4, BothBut DEF But, LifeFields
    <3>6. /\ off.timer = s.timer /\ off.system = "OFF"
          /\ off.hu = s.hu /\ off.boot = s.boot /\ off.disco = s.disco /\ off.sent = s.sent
      BY <3>3, <3>4 DEF But, NodeFields
    <3> QED BY <3>2, <3>4, <3>5, <3>6, LifeBut DEF Lives, LifeOK, Systems
  <2> QED BY <2>2, <2>3, <2>4, <2>5
<1> QED BY <1>2, <1>3, <1>4

\* The two answers of the head unit.
LEMMA AnswersHandled ==
  ASSUME NEW s, Shape(s), LifeOK(s), NEW f, f.src = Stereo
  PROVE  Lives(s, HandleProduct(s, f)) /\ Lives(s, HandleAnnounce(s, f))
<1>1. Lives(s, s)
  BY PlainSame, PlainLives
<1>2. ASSUME NEW t, Lives(s, t), t.boot \in {"DISCOVERED", "ANNOUNCED"}
      PROVE  Lives(s, BootAnnounce(t)) /\ Lives(s, BootRequest(t))
  <2>1. Shape(t) /\ LifeOK(t) /\ t.system # "ON"
    BY <1>2 DEF Lives, LifeOK
  <2> QED BY <1>2, <2>1, BootStepped, LivesAgain
<1>3. Lives(s, HandleProduct(s, f))
  <2>1. PICK t : t = (IF f.seq = 0 THEN BootInit(s, f.src) ELSE s)
    OBVIOUS
  <2>2. Lives(s, t)
    BY <1>1, <2>1, BootBegun
  <2>3. HandleProduct(s, f) = IF f.end /\ t.boot = "DISCOVERED" THEN BootAnnounce(t) ELSE t
    BY <2>1 DEF HandleProduct
  <2> QED BY <1>2, <2>2, <2>3
<1>4. Lives(s, HandleAnnounce(s, f))
  BY <1>1, <1>2 DEF HandleAnnounce
<1> QED BY <1>3, <1>4

\* What is due when emit() is called.
LEMMA Emitted ==
  ASSUME NEW s, Shape(s), LifeOK(s)
  PROVE  Lives(s, Emit(s)) /\ (s.address = None => Emit(s) = s)
<1>1. Lives(s, s)
  BY PlainSame, PlainLives
<1>2. s.timer = "due" => s.system # "ON"
  BY DEF LifeOK
<1>3. CASE s.address = None
  BY <1>1, <1>3 DEF Emit
<1>4. CASE s.address # None /\ s.hu = None
  BY <1>1, <1>4, DiscoverySent DEF Emit
<1>5. CASE s.address # None /\ s.hu # None
  <2>1. CASE s.timer # "due"
    BY <1>1, <1>5, <2>1 DEF Emit
  <2>2. CASE s.timer = "due" /\ s.boot = "DISCOVERED"
    BY <1>2, <1>5, <2>2, BootStepped DEF Emit
  <2>3. CASE s.timer = "due" /\ s.boot = "ANNOUNCED"
    BY <1>2, <1>5, <2>3, BootStepped DEF Emit
  <2>4. CASE s.timer = "due" /\ s.boot \in {"REQUESTED", "POWERING"}
    BY <1>5, <2>4, BootEndedIn DEF Emit
  <2>5. CASE s.timer = "due" /\ s.boot \notin {"DISCOVERED", "ANNOUNCED", "REQUESTED", "POWERING"}
    BY <1>1, <1>5, <2>5 DEF Emit
  <2> QED BY <1>5, <2>1, <2>2, <2>3, <2>4, <2>5
<1> QED BY <1>3, <1>4, <1>5

\* A step of the life, but for the address.
LEMMA ClaimHandled ==
  ASSUME NEW s, Shape(s), LifeOK(s), NEW a \in {None, Address}, NEW u, u = HandleJ1939Claim(s, a)
  PROVE  /\ Shape(u) /\ LifeOK(u)
         /\ u.address = a /\ u.state = s.state /\ u.seq = s.seq /\ u.ignore = s.ignore
         /\ u.hu = s.hu /\ u.system = s.system
         /\ SameLevels(s, u)
         /\ Requests(s.sent) => Requests(u.sent)
<1> DEFINE t == [s EXCEPT !.address = a]
<1>1. But(s, t, {"address"}) /\ t.address = a
  BY DEF Shape, But, NodeFields
<1>2. u = IF a # None /\ s.hu = None THEN SendStereoDiscovery(t) ELSE t
  BY DEF HandleJ1939Claim
<1> HIDE DEF t
<1>3. /\ t.state = s.state /\ t.seq = s.seq /\ t.ignore = s.ignore /\ t.hu = s.hu /\ t.system = s.system
      /\ t.boot = s.boot /\ t.timer = s.timer /\ t.disco = s.disco /\ t.sent = s.sent /\ t.shown = s.shown
      /\ t.volume = s.volume /\ t.fade = s.fade /\ t.balance = s.balance /\ t.tone = s.tone
      /\ t.count = s.count /\ t.mute = s.mute
  BY <1>1 DEF But, NodeFields
<1>4. Shape(t) /\ \A e \in {"SYSTEM_STATE", "VOLUME_STATE", "TONE_STATE"} : Kept(t, e) = Kept(s, e)
  BY <1>1, <1>3, KeptFour DEF But
<1>5. LifeOK(t)
  BY <1>1, <1>3, <1>4 DEF LifeOK, Shows
<1>6. Plain(t, u) \/ Lives(t, u)
  BY <1>2, <1>4, <1>5, DiscoverySent, PlainSame
<1>7. CASE u = t
  BY <1>1, <1>3, <1>4, <1>5, <1>7 DEF SameLevels
<1>8. CASE u = SendStereoDiscovery(t)
  <2>1. PICK d : d = [t EXCEPT !.disco = Reset(@)]
    OBVIOUS
  <2>2. PICK frame : frame = <<"REQUEST", "PRODUCT">>
    OBVIOUS
  <2>3. u = Send(d, frame)
    BY <1>8, <2>1, <2>2 DEF SendStereoDiscovery
  <2>4. Shape(d) /\ d.hu = t.hu /\ d.system = t.system
    BY <1>4, <2>1 DEF Shape, NodeFields
  <2>5. u.hu = t.hu /\ u.system = t.system
    BY <2>2, <2>3, <2>4, PlainSend DEF Plain, Ordinary, SameLife
  <2>6. Lives(t, u)
    BY <1>4, <1>5, <1>8, DiscoverySent
  <2> QED BY <1>1, <1>3, <2>5, <2>6 DEF Lives, SameLevels
<1> QED BY <1>2, <1>7, <1>8

-----------------------------------------------------------------------------
(* The source. *)

SourceFields == {"source", "secondary", "bt"}

\* What a change of the source leaves alone.
LEMMA SourceBut ==
  ASSUME NEW s, Shape(s), LifeOK(s), NEW t, But(s, t, SourceFields)
  PROVE  /\ Shape(t) /\ LifeOK(t)
         /\ t.address = s.address /\ t.state = s.state /\ t.seq = s.seq /\ t.ignore = s.ignore
         /\ t.hu = s.hu /\ t.system = s.system
         /\ SameLevels(s, t) /\ t.sent = s.sent /\ t.shown = s.shown
<1>1. /\ t.state = s.state /\ t.seq = s.seq /\ t.ignore = s.ignore /\ t.hu = s.hu /\ t.system = s.system
      /\ t.boot = s.boot /\ t.timer = s.timer /\ t.disco = s.disco /\ t.sent = s.sent /\ t.shown = s.shown
      /\ t.volume = s.volume /\ t.fade = s.fade /\ t.balance = s.balance /\ t.tone = s.tone
      /\ t.count = s.count /\ t.mute = s.mute /\ t.address = s.address
  BY DEF But, NodeFields, SourceFields
<1>2. Shape(t) /\ \A e \in {"SYSTEM_STATE", "VOLUME_STATE", "TONE_STATE"} : Kept(t, e) = Kept(s, e)
  BY <1>1, KeptFour DEF But
<1>3. LifeOK(t)
  BY <1>1, <1>2 DEF LifeOK, Shows
<1> QED BY <1>1, <1>2, <1>3 DEF SameLevels

\* The first frame of a report of the source leaves what is shown, and either
\* the source or the two reported sources agree.  The second one shows it.
LEMMA SourceHandled ==
  ASSUME NEW s, Shape(s), LifeOK(s), NEW f, NEW u, u = HandleSource(s, f)
  PROVE  /\ Shape(u) /\ LifeOK(u)
         /\ u.address = s.address /\ u.state = s.state /\ u.seq = s.seq /\ u.ignore = s.ignore
         /\ u.hu = s.hu
         /\ SameLevels(s, u)
         /\ Requests(s.sent) => Requests(u.sent)
         /\ u.system = "ON" => \/ Shows(u, "SOURCE_STATE")
                               \/ s.system = "ON" /\ StillShown(s, u, {"SOURCE_STATE"})
                               \/ s.system = "ON" /\ f.seq = 0 /\ u.source = u.secondary
         /\ f.seq = 1 /\ s.source = s.secondary /\ u.system = "ON" => Shows(u, "SOURCE_STATE")
<1>1. CASE f.seq = 0
  <2>1. u = [s EXCEPT !.secondary = f.x, !.source = IF f.x = f.y THEN f.y ELSE @]
    BY <1>1 DEF HandleSource
  <2>2. /\ But(s, u, SourceFields) /\ u.secondary = f.x /\ u.bt = s.bt
        /\ u.source = IF f.x = f.y THEN f.y ELSE s.source
    BY <2>1 DEF Shape, But, NodeFields, SourceFields
  <2>3. /\ Shape(u) /\ LifeOK(u)
        /\ u.address = s.address /\ u.state = s.state /\ u.seq = s.seq /\ u.ignore = s.ignore
        /\ u.hu = s.hu /\ u.system = s.system
        /\ SameLevels(s, u) /\ u.sent = s.sent /\ u.shown = s.shown
    BY <2>2, SourceBut
  <2>4. u.source = u.secondary \/ Kept(u, "SOURCE_STATE") = Kept(s, "SOURCE_STATE")
    BY <2>2, KeptFour
  <2>5. u.source = u.secondary \/ StillShown(s, u, {"SOURCE_STATE"})
    BY <2>3, <2>4 DEF StillShown, Shows
  <2> QED BY <1>1, <2>3, <2>5
<1>2. CASE f.seq = 1 /\ s.source = s.secondary
  <2>1. PICK t : t = (IF s.source = "BLUETOOTH" /\ f.x \in {Connected, Disconnected}
                        THEN [s EXCEPT !.bt = (f.x = Connected)] ELSE s)
    OBVIOUS
  <2>2. u = CASE s.system = "POWER_ON" -> BootComplete([t EXCEPT !.system = "ON"])
              [] s.system = "ON" -> Yield(t, {"SOURCE_STATE"})
              [] OTHER -> t
    BY <1>2, <2>1 DEF HandleSource
  <2>3. But(s, t, SourceFields)
    BY <2>1 DEF Shape, But, NodeFields, SourceFields
  <2>4. /\ Shape(t) /\ LifeOK(t)
        /\ t.address = s.address /\ t.state = s.state /\ t.seq = s.seq /\ t.ignore = s.ignore
        /\ t.hu = s.hu /\ t.system = s.system
        /\ SameLevels(s, t) /\ t.sent = s.sent
    BY <2>3, SourceBut
  <2>5. CASE s.system = "POWER_ON"
    <3>1. PICK y : y = [t EXCEPT !.system = "ON"]
      OBVIOUS
    <3>2. u = BootComplete(y)
      BY <2>2, <2>5, <3>1
    <3>3. But(t, y, {"system"})
      BY <2>4, <3>1 DEF Shape, But, NodeFields
    <3>4. But(y, u, {"boot", "timer", "shown"}) /\ Shows(u, "SOURCE_STATE")
      BY <3>2, <3>3, BootEnded DEF But
    <3>5. u.hu = t.hu
      BY <3>3, <3>4 DEF But, NodeFields
    <3>6. Lives(t, u) /\ u.system = "ON"
      BY <2>4, <3>1, <3>2, BootEndedIn
    <3> QED BY <1>2, <2>4, <3>4, <3>5, <3>6 DEF Lives, SameLevels
  <2>6. CASE s.system = "ON"
    <3>1. u = Yield(t, {"SOURCE_STATE"})
      BY <2>2, <2>6
    <3>2. Plain(t, u) /\ Shows(u, "SOURCE_STATE")
      BY <2>4, <3>1, PlainYield, Yields
    <3>3. Lives(t, u)
      BY <2>4, <3>2, PlainLives
    <3>4. u.hu = t.hu
      BY <3>2 DEF Plain, Ordinary, SameLife
    <3> QED BY <1>2, <2>4, <3>2, <3>3, <3>4 DEF Lives, SameLevels
  <2>7. CASE s.system \notin {"POWER_ON", "ON"}
    <3>1. u = t
      BY <2>2, <2>7
    <3> QED BY <1>2, <2>4, <2>7, <3>1
  <2> QED BY <2>5, <2>6, <2>7
<1>3. CASE ~(f.seq = 0) /\ ~(f.seq = 1 /\ s.source = s.secondary)
  <2>1. u = s
    BY <1>3 DEF HandleSource
  <2> QED BY <1>3, <2>1 DEF SameLevels, StillShown
<1> QED BY <1>1, <1>2, <1>3

-----------------------------------------------------------------------------
(* Commands and requests. *)

\* Commands that are one frame.
LEMMA FramesPlain ==
  ASSUME NEW s, Shape(s), NEW x, NEW y
  PROVE  /\ Plain(s, SendSourceSet(s, x)) /\ Plain(s, SendTrack(s, x))
         /\ Plain(s, SendRadio(s, x, y)) /\ Plain(s, SendInputGain(s, x))
         /\ Plain(s, SendPower(s, x)) /\ Plain(s, SendMute(s, x))
         /\ Plain(s, SendMenu(s, x, y))
<1>1. ASSUME NEW f, f[1] # "REQUEST" PROVE Plain(s, Send(s, f))
  BY <1>1, PlainSend
<1>2. PICK a : a = <<"SOURCE", x>>
  OBVIOUS
<1>3. PICK b : b = <<"TRACK", x>>
  OBVIOUS
<1>4. PICK c : c = <<"RADIO", s.source, x, y>>
  OBVIOUS
<1>5. PICK d : d = <<"GAIN", s.source, x>>
  OBVIOUS
<1>6. PICK e : e = <<"POWER", x>>
  OBVIOUS
<1>7. PICK g : g = <<"MUTE", x>>
  OBVIOUS
<1>8. PICK h : h = <<"MENU", s.source, x, y>>
  OBVIOUS
<1>9. /\ a[1] # "REQUEST" /\ b[1] # "REQUEST" /\ c[1] # "REQUEST" /\ d[1] # "REQUEST"
      /\ e[1] # "REQUEST" /\ g[1] # "REQUEST" /\ h[1] # "REQUEST"
  BY <1>2, <1>3, <1>4, <1>5, <1>6, <1>7, <1>8
<1>10. /\ SendSourceSet(s, x) = Send(s, a) /\ SendTrack(s, x) = Send(s, b)
       /\ SendRadio(s, x, y) = Send(s, c) /\ SendInputGain(s, x) = Send(s, d)
       /\ SendPower(s, x) = Send(s, e) /\ SendMute(s, x) = Send(s, g)
       /\ SendMenu(s, x, y) = Send(s, h)
  BY <1>2, <1>3, <1>4, <1>5, <1>6, <1>7, <1>8
     DEF SendSourceSet, SendTrack, SendRadio, SendInputGain, SendPower, SendMute, SendMenu
<1> QED BY <1>1, <1>9, <1>10

\* Commands that are a frame for each of two zones.
LEMMA PairsPlain ==
  ASSUME NEW s, Shape(s), NEW x
  PROVE  Plain(s, SendBalance(s, x)) /\ Plain(s, SendTone(s, x))
<1>1. ASSUME NEW f, NEW g, f[1] # "REQUEST", g[1] # "REQUEST" PROVE Plain(s, Send(Send(s, f), g))
  <2>1. PICK t : t = Send(s, f)
    OBVIOUS
  <2>2. Plain(s, t)
    BY <1>1, <2>1, PlainSend
  <2>3. Plain(t, Send(t, g))
    BY <1>1, <2>2, PlainShape, PlainSend
  <2> QED BY <2>1, <2>2, <2>3, PlainAgain
<1>2. Plain(s, SendBalance(s, x))
  <2>1. PICK b : b = Clamp(x, -BalanceMax, BalanceMax)
    OBVIOUS
  <2>2. PICK f, g : f = <<"BALANCE", 0, b>> /\ g = <<"BALANCE", 1, b>>
    OBVIOUS
  <2>3. f[1] # "REQUEST" /\ g[1] # "REQUEST"
    BY <2>2
  <2>4. SendBalance(s, x) = Send(Send(s, f), g)
    BY <2>1, <2>2 DEF SendBalance
  <2> QED BY <1>1, <2>3, <2>4
<1>3. Plain(s, SendTone(s, x))
  <2>1. PICK b : b = [i \in 1 .. 3 |-> Clamp(x[i], -ToneMax, ToneMax)]
    OBVIOUS
  <2>2. PICK f, g : f = <<"TONE", 0, b>> /\ g = <<"TONE", 1, b>>
    OBVIOUS
  <2>3. f[1] # "REQUEST" /\ g[1] # "REQUEST"
    BY <2>2
  <2>4. SendTone(s, x) = Send(Send(s, f), g)
    BY <2>1, <2>2 DEF SendTone
  <2> QED BY <1>1, <2>3, <2>4
<1> QED BY <1>2, <1>3

\* The seek mode is the node's own.
LEMMA SeekToggled ==
  ASSUME NEW s, Shape(s)
  PROVE  Plain(s, ToggleSeek(s))
<1>1. PICK t : t = [s EXCEPT !.seek = IF @ = "AUTO" THEN "MANUAL" ELSE "AUTO"]
  OBVIOUS
<1>2. Plain(s, t)
  BY <1>1, PlainField DEF Others
<1>3. Plain(t, ToggleSeek(s))
  BY <1>1, <1>2, PlainShape, PlainYield DEF ToggleSeek
<1> QED BY <1>2, <1>3, PlainAgain

\* The fade that is kept.
LEMMA VolumeSent ==
  ASSUME NEW s, Shape(s), LevelsOK(s), NEW volume, NEW f \in Int, NEW u, u = SendVolume(s, volume, f)
  PROVE  /\ Levelled(s, u) /\ u.ignore = s.ignore
<1>1. PICK fade : fade = Clamp(f, -FadeMax, FadeMax)
  OBVIOUS
<1>2. fade \in -FadeMax .. FadeMax
  BY <1>1, LimitsAssumption DEF Clamp
<1> DEFINE t == [s EXCEPT !.fade = fade]
<1>3. PICK frame : frame = <<"VOLUME",
         IF FadeMultiplier * fade < 0 THEN Clamp(volume + FadeMultiplier * fade, 0, VolumeMax) ELSE volume,
         IF FadeMultiplier * fade >= 0 THEN Clamp(volume - FadeMultiplier * fade, 0, VolumeMax) ELSE volume>>
  OBVIOUS
<1>4. u = Yield(Send(t, frame), {"VOLUME_STATE"})
  BY <1>1, <1>3 DEF SendVolume
<1>5. frame[1] # "REQUEST"
  BY <1>3
<1>6. /\ But(s, t, LevelFields) /\ t.fade = fade
      /\ t.volume = s.volume /\ t.balance = s.balance /\ t.tone = s.tone
      /\ t.count = s.count /\ t.ignore = s.ignore
  BY DEF Shape, But, LevelFields, NodeFields
<1> HIDE DEF t
<1>7. /\ Shape(t) /\ SameLife(s, t) /\ SameSource(s, t)
      /\ t.state = s.state /\ t.seq = s.seq /\ t.sent = s.sent
      /\ StillShown(s, t, {"SYSTEM_STATE", "SOURCE_STATE"}) /\ StillShown(s, t, {"TONE_STATE"})
  BY <1>6, LevelBut
<1>8. PICK v : v = Send(t, frame)
  OBVIOUS
<1>9. Plain(t, v)
  BY <1>5, <1>7, <1>8, PlainSend
<1>10. Plain(v, u) /\ Shows(u, "VOLUME_STATE")
  BY <1>4, <1>8, <1>9, PlainShape, PlainYield, Yields
<1>11. Plain(t, u)
  BY <1>9, <1>10, PlainAgain
<1>12. LevelsOK(t)
  BY <1>2, <1>6 DEF LevelsOK
<1>13. StillShown(s, u, {"SYSTEM_STATE", "VOLUME_STATE", "SOURCE_STATE"})
  BY <1>7, <1>10, <1>11 DEF StillShown, Plain, Ordinary
<1>14. s.system = "ON" => StillShown(s, u, {"TONE_STATE"})
  BY <1>7, <1>11 DEF StillShown, Plain, Ordinary, SameLife
<1>15. SameLife(s, u) /\ SameSource(s, u) /\ u.state = s.state /\ u.seq = s.seq /\ u.ignore = s.ignore
  BY <1>6, <1>7, <1>11 DEF Plain, Ordinary, SameLife, SameSource
<1>16. Shape(u) /\ (Requests(s.sent) => Requests(u.sent)) /\ LevelsOK(u)
  BY <1>7, <1>11, <1>12 DEF Plain, Ordinary, SameLevels, LevelsOK
<1> QED BY <1>13, <1>14, <1>15, <1>16 DEF Levelled, Ordinary, StillShown

\* Commands of the settings menu.
LEMMA MenuLeft ==
  ASSUME NEW s, Shape(s), NEW c, c.name \in SettingsCommands
  PROVE  Plain(s, SettingsCommand(s, c))
<1>1. \A x, y : Plain(s, SendMenu(s, x, y))
  BY FramesPlain
<1>2. CASE ~(c.name = "SETTINGS_BACK" /\ s.page = 1)
  BY <1>1, <1>2 DEF SettingsCommand, SettingsCommands
<1>3. CASE c.name = "SETTINGS_BACK" /\ s.page = 1
  <2> DEFINE now == [e \in DOMAIN s.shown \cup {"SETTINGS_ITEM_STATE"} |->
                       IF e = "SETTINGS_ITEM_STATE" THEN BlankItem ELSE s.shown[e]]
  <2>1. PICK t : t = [s EXCEPT !.shown = now]
    OBVIOUS
  <2>2. SettingsCommand(s, c) = SendMenu(t, 4, 0)
    BY <1>3, <2>1 DEF SettingsCommand
  <2>3. But(s, t, {"shown"}) /\ t.shown = now
    BY <2>1 DEF Shape, But, NodeFields
  <2>4. But(s, t, Others \cup {"shown", "sent"}) /\ t.sent = s.sent
    BY <2>3 DEF But, NodeFields
  <2>5. \A e : Kept(t, e) = Kept(s, e)
    BY <2>3, SameKept DEF But
  <2>6. StillShown(s, t, {"SYSTEM_STATE", "VOLUME_STATE", "TONE_STATE", "SOURCE_STATE"})
    BY <2>3, <2>5 DEF StillShown, Shows
  <2>7. Plain(s, t)
    BY <2>4, <2>6, PlainBut
  <2>8. Plain(t, SendMenu(t, 4, 0))
    BY <2>7, PlainShape, FramesPlain
  <2> QED BY <2>2, <2>7, <2>8, PlainAgain
<1> QED BY <1>2, <1>3

\* Every group of commands but the volumes is plain.
LEMMA CommandsPlain ==
  ASSUME NEW s, Shape(s), NEW c
  PROVE  /\ c.name \in SourceCommands => Plain(s, SourceCommand(s, c))
         /\ c.name \in RadioCommands => Plain(s, RadioCommand(s, c))
         /\ c.name \in GainCommands => Plain(s, GainCommand(s, c))
         /\ c.name \in ToneCommands => Plain(s, ToneCommand(s, c))
         /\ c.name \in PlaybackCommands => Plain(s, PlaybackCommand(s, c))
<1>1. /\ \A x : /\ Plain(s, SendSourceSet(s, x)) /\ Plain(s, SendTrack(s, x))
                /\ Plain(s, SendInputGain(s, x)) /\ Plain(s, SendTone(s, x))
      /\ \A x, y : Plain(s, SendRadio(s, x, y))
  BY FramesPlain, PairsPlain
<1>2. Plain(s, ToggleSeek(s)) /\ Plain(s, s)
  BY SeekToggled, PlainSame
<1>3. \A d : Plain(s, Seek(s, d))
  BY <1>1 DEF Seek
<1>4. c.name \in SourceCommands => Plain(s, SourceCommand(s, c))
  BY <1>1 DEF SourceCommands, SourceCommand
<1>5. c.name \in RadioCommands => Plain(s, RadioCommand(s, c))
  BY <1>1, <1>2, <1>3 DEF RadioCommands, RadioCommand
<1>6. c.name \in GainCommands => Plain(s, GainCommand(s, c))
  BY <1>1 DEF GainCommand
<1>7. c.name \in ToneCommands => Plain(s, ToneCommand(s, c))
  BY <1>1 DEF ToneCommands, ToneCommand
<1>8. c.name \in PlaybackCommands => Plain(s, PlaybackCommand(s, c))
  BY <1>1, <1>2, <1>3 DEF PlaybackCommands, PlaybackCommand
<1> QED BY <1>4, <1>5, <1>6, <1>7, <1>8

\* The commands of volume, fade and balance.
LEMMA VolumesHandled ==
  ASSUME NEW s, Shape(s), LevelsOK(s), NEW c, c.name \in VolumeCommands,
         c.name = "FADE_SET" => c.arg \in Int
  PROVE  Levelled(s, VolumeCommand(s, c)) /\ VolumeCommand(s, c).ignore = s.ignore
<1>1. ASSUME NEW v, NEW f \in Int
      PROVE  Levelled(s, SendVolume(s, v, f)) /\ SendVolume(s, v, f).ignore = s.ignore
  BY VolumeSent
<1>2. ASSUME NEW x
      PROVE  /\ Levelled(s, SendMute(s, x)) /\ SendMute(s, x).ignore = s.ignore
             /\ Levelled(s, SendBalance(s, x)) /\ SendBalance(s, x).ignore = s.ignore
  BY FramesPlain, PairsPlain, PlainLevels DEF Plain
<1>3. s.fade \in Int /\ s.fade + 1 \in Int /\ s.fade - 1 \in Int
  BY LimitsAssumption DEF LevelsOK
<1> QED BY <1>1, <1>2, <1>3 DEF VolumeCommand, VolumeCommands

\* Each command belongs to one group.
LEMMA GroupOf ==
  ASSUME NEW s, NEW c
  PROVE  /\ c.name \in {"POWER_OFF", "POWER_TOGGLE"} => OnCommand(s, c) = SendPower(s, FALSE)
         /\ c.name \in SourceCommands => OnCommand(s, c) = SourceCommand(s, c)
         /\ c.name \in DOMAIN TrackCommands => OnCommand(s, c) = SendTrack(s, TrackCommands[c.name])
         /\ c.name \in RadioCommands => OnCommand(s, c) = RadioCommand(s, c)
         /\ c.name \in GainCommands => OnCommand(s, c) = GainCommand(s, c)
         /\ c.name \in VolumeCommands => OnCommand(s, c) = VolumeCommand(s, c)
         /\ c.name \in ToneCommands => OnCommand(s, c) = ToneCommand(s, c)
         /\ c.name \in PlaybackCommands => OnCommand(s, c) = PlaybackCommand(s, c)
         /\ c.name \in SettingsCommands => OnCommand(s, c) = SettingsCommand(s, c)
BY DEF OnCommand, SourceCommands, TrackCommands, RadioCommands, GainCommands,
       VolumeCommands, ToneCommands, PlaybackCommands, SettingsCommands

\* A command leaves the levels within their limits.
LEMMA CommandHandled ==
  ASSUME NEW s, Shape(s), LevelsOK(s), NEW c, c.name = "FADE_SET" => c.arg \in Int
  PROVE  Levelled(s, HandleCommand(s, c)) /\ HandleCommand(s, c).ignore = s.ignore
<1>1. ASSUME NEW u, Plain(s, u) PROVE Levelled(s, u) /\ u.ignore = s.ignore
  BY <1>1, PlainLevels DEF Plain
<1>2. Plain(s, s) /\ \A x : Plain(s, SendPower(s, x)) /\ Plain(s, SendTrack(s, x))
  BY PlainSame, FramesPlain
<1>3. Levelled(s, OnCommand(s, c)) /\ OnCommand(s, c).ignore = s.ignore
  <2>1. CASE c.name \in {"POWER_OFF", "POWER_TOGGLE"}
    BY <1>1, <1>2, <2>1, GroupOf
  <2>2. CASE c.name \in SourceCommands
    BY <1>1, <2>2, CommandsPlain, GroupOf
  <2>3. CASE c.name \in DOMAIN TrackCommands
    BY <1>1, <1>2, <2>3, GroupOf
  <2>4. CASE c.name \in RadioCommands
    BY <1>1, <2>4, CommandsPlain, GroupOf
  <2>5. CASE c.name \in GainCommands
    BY <1>1, <2>5, CommandsPlain, GroupOf
  <2>6. CASE c.name \in VolumeCommands
    <3>1. OnCommand(s, c) = VolumeCommand(s, c)
      BY <2>6, GroupOf
    <3> QED BY <2>6, <3>1, VolumesHandled
  <2>7. CASE c.name \in ToneCommands
    BY <1>1, <2>7, CommandsPlain, GroupOf
  <2>8. CASE c.name \in PlaybackCommands
    BY <1>1, <2>8, CommandsPlain, GroupOf
  <2>9. CASE c.name \in SettingsCommands
    BY <1>1, <2>9, MenuLeft, GroupOf
  <2>10. CASE c.name \notin {"POWER_OFF", "POWER_TOGGLE"} \cup SourceCommands \cup DOMAIN TrackCommands
                \cup RadioCommands \cup GainCommands \cup VolumeCommands \cup ToneCommands
                \cup PlaybackCommands \cup SettingsCommands
    BY <1>1, <1>2, <2>10 DEF OnCommand
  <2> QED BY <2>1, <2>2, <2>3, <2>4, <2>5, <2>6, <2>7, <2>8, <2>9, <2>10
<1> QED BY <1>1, <1>2, <1>3 DEF HandleCommand

\* A request yields an event the node keeps.
LEMMA RequestHandled ==
  ASSUME NEW s, Shape(s), NEW e
  PROVE  Plain(s, HandleRequest(s, e))
BY PlainYield, PlainSame DEF HandleRequest

-----------------------------------------------------------------------------
(* Frames. *)

SourceShown(s, u) ==
  u.system = "ON" => \/ Shows(u, "SOURCE_STATE")
                     \/ s.system = "ON" /\ StillShown(s, u, {"SOURCE_STATE"})

\* What holds of the node u after a frame f for the state that s is in.
Taken(s, f, u) ==
  /\ Shape(u) /\ LifeOK(u) /\ LevelsOK(u)
  /\ Requests(s.sent) => Requests(u.sent)
  /\ u.address = s.address /\ u.state = s.state /\ u.seq = s.seq
  /\ s.hu # None => u.hu # None
  /\ u.ignore = s.ignore \/ (s.state = "TONE" /\ f.seq = 0)
  /\ \/ SameSource(s, u) /\ SourceShown(s, u)
     \/ /\ s.state = "SOURCE" /\ f.seq = 0
        /\ u.system = "ON" => s.system = "ON"
        /\ u.source = u.secondary \/ SourceShown(s, u)
     \/ s.state = "SOURCE" /\ f.seq # 0 /\ SourceShown(s, u)
  /\ s.state = "SOURCE" /\ f.seq = 1 /\ s.source = s.secondary /\ u.system = "ON"
       => Shows(u, "SOURCE_STATE")

\* A step of the levels, as the handling of a frame.
LEMMA LevelledTaken ==
  ASSUME NEW s, LifeOK(s), NEW f, NEW u, Levelled(s, u),
         u.ignore = s.ignore \/ (s.state = "TONE" /\ f.seq = 0), s.state # "SOURCE"
  PROVE  Taken(s, f, u)
<1>1. LifeOK(u)
  BY DEF Levelled, Ordinary, SameLife, StillShown, LifeOK
<1> QED BY <1>1 DEF Levelled, Ordinary, SameLife, Taken, SourceShown

\* A step of the life, as the handling of a frame.
LEMMA LivesTaken ==
  ASSUME NEW s, LevelsOK(s), NEW f, NEW u, Lives(s, u), s.state # "SOURCE"
  PROVE  Taken(s, f, u)
BY DEF Lives, Taken, SourceShown, SameLevels, LevelsOK

\* A frame of the source.
LEMMA SourceTaken ==
  ASSUME NEW s, Shape(s), LifeOK(s), LevelsOK(s), s.state = "SOURCE", NEW f
  PROVE  Taken(s, f, HandleSource(s, f))
<1>1. PICK u : u = HandleSource(s, f)
  OBVIOUS
<1>2. /\ Shape(u) /\ LifeOK(u)
      /\ u.address = s.address /\ u.state = s.state /\ u.seq = s.seq /\ u.ignore = s.ignore
      /\ u.hu = s.hu
      /\ SameLevels(s, u)
      /\ Requests(s.sent) => Requests(u.sent)
      /\ u.system = "ON" => \/ Shows(u, "SOURCE_STATE")
                            \/ s.system = "ON" /\ StillShown(s, u, {"SOURCE_STATE"})
                            \/ s.system = "ON" /\ f.seq = 0 /\ u.source = u.secondary
      /\ f.seq = 1 /\ s.source = s.secondary /\ u.system = "ON" => Shows(u, "SOURCE_STATE")
  BY <1>1, SourceHandled
<1>3. f.seq = 0 => u.system = s.system
  <2>1. ASSUME f.seq = 0 PROVE u = [s EXCEPT !.secondary = f.x, !.source = IF f.x = f.y THEN f.y ELSE @]
    BY <1>1, <2>1 DEF HandleSource
  <2> QED BY <2>1 DEF Shape, NodeFields
<1>4. LevelsOK(u)
  BY <1>2 DEF SameLevels, LevelsOK
<1>5. \/ /\ f.seq = 0
         /\ u.system = "ON" => s.system = "ON"
         /\ u.source = u.secondary \/ SourceShown(s, u)
      \/ f.seq # 0 /\ SourceShown(s, u)
  BY <1>2, <1>3 DEF SourceShown
<1> QED BY <1>1, <1>2, <1>4, <1>5 DEF Taken

\* Any state, once its frame has been placed.
LEMMA StateHandled ==
  ASSUME NEW s, Shape(s), LifeOK(s), LevelsOK(s), NEW f, Fits(s.state, f)
  PROVE  Taken(s, f, HandleState(s, f))
<1>1. ASSUME NEW u, Plain(s, u), s.state # "SOURCE" PROVE Taken(s, f, u)
  BY <1>1, PlainLevels, LevelledTaken DEF Plain
<1>2. Plain(s, s)
  BY PlainSame
<1>3. CASE s.state \in {"POWER", "HEARTBEAT"}
  <2>1. \A b \in BOOLEAN : Taken(s, f, UpdatePower(s, b))
    BY <1>3, PowerHandled, LivesTaken
  <2>2. (f.x # 0) \in BOOLEAN /\ (f.x # 2) \in BOOLEAN
    OBVIOUS
  <2> QED BY <1>1, <1>2, <1>3, <2>1, <2>2 DEF HandleState, Texts
<1>4. CASE s.state = "VOLUME"
  BY <1>4, VolumeHandled, LevelledTaken DEF HandleState, Texts
<1>5. CASE s.state = "MUTE"
  BY <1>5, MuteHandled, LevelledTaken DEF HandleState, Texts
<1>6. CASE s.state = "BALANCE"
  BY <1>6, BalanceHandled, LevelledTaken DEF HandleState, Texts
<1>7. CASE s.state = "TONE"
  BY <1>7, ToneHandled, LevelledTaken DEF HandleState, Texts
<1>8. CASE s.state = "SOURCE"
  BY <1>8, SourceTaken DEF HandleState, Texts
<1>9. CASE s.state \in Texts
  BY <1>1, <1>9, TextsHandled DEF HandleState, Texts
<1>10. CASE s.state \in {"TRACK_PLAYBACK", "TRACK_ELAPSED", "RADIO_FREQUENCY", "INPUT_GAIN"}
  BY <1>1, <1>10, TextsHandled DEF HandleState, Texts
<1>11. CASE s.state \in {"MENU_LOAD", "MENU_ITEM_LIST"}
  BY <1>1, <1>11, MenusHandled DEF HandleState, Texts
<1>12. CASE s.state = "MENU_ITEM_COUNT"
  BY <1>12, CountHandled, LevelledTaken DEF HandleState, Texts
<1>13. CASE s.state \notin {"POWER", "HEARTBEAT", "VOLUME", "MUTE", "BALANCE", "INPUT_GAIN", "MENU_ITEM_COUNT"} \cup Spans
  BY <1>1, <1>2, <1>13 DEF HandleState, Spans
<1> QED BY <1>3, <1>4, <1>5, <1>6, <1>7, <1>8, <1>9, <1>10, <1>11, <1>12, <1>13 DEF Spans

\* Only states of several frames have anything in a later frame.
LEMMA LaterFrames ==
  ASSUME NEW s, s.state \notin Spans, NEW f, f.seq # 0
  PROVE  HandleState(s, f) = s
BY DEF HandleState, Spans, Texts, HandleVolume, HandleMute, HandleBalance, HandleInputGain,
       HandleMenuItemCount

\* The node d that has the place of a frame in its message.
PlaceOf(s, f, d) ==
  /\ But(s, d, {"state", "ignore", "pgn", "id", "seq"})
  /\ NodeOK(d) /\ SameSource(s, d) /\ d.sent = s.sent
  /\ d.address = s.address /\ d.hu = s.hu /\ d.system = s.system
  /\ d.seq = f.seq
  /\ f.seq = 0 => d.state \in {f.kind, "INVALID"} /\ d.ignore = s.ignore
  /\ f.seq # 0 => d.ignore = IF f.seq = s.seq + 1 THEN FALSE ELSE s.ignore
  /\ f.seq # 0 /\ d.state # "INVALID" => f.seq = s.seq + 1 /\ d.state = s.state
  /\ f.seq # 0 /\ f.seq = s.seq + 1 /\ ~s.ignore => d.state = s.state
  /\ StillShown(s, d, {"SOURCE_STATE"})

\* Where detection places a frame.
LEMMA Placed ==
  ASSUME NEW s, NodeOK(s), NEW f, NEW d, d = Detect(s, f)
  PROVE  PlaceOf(s, f, d)
<1> DEFINE follows == f.seq # 0 /\ f.seq = s.seq + 1
           first   == f.seq = 0 /\ (s.pgn # "STATE" \/ f.id # s.id)
           st      == CASE first -> f.kind
                        [] follows /\ ~s.ignore -> s.state
                        [] OTHER -> "INVALID"
           ig      == IF follows THEN FALSE ELSE s.ignore
<1>1. d = [s EXCEPT !.state = st, !.ignore = ig, !.pgn = "STATE", !.id = f.id, !.seq = f.seq]
  BY DEF Detect
<1>2. /\ f.seq = 0 => st \in {f.kind, "INVALID"} /\ ig = s.ignore
      /\ f.seq # 0 => ig = IF f.seq = s.seq + 1 THEN FALSE ELSE s.ignore
      /\ f.seq # 0 /\ st # "INVALID" => f.seq = s.seq + 1 /\ st = s.state
      /\ f.seq # 0 /\ f.seq = s.seq + 1 /\ ~s.ignore => st = s.state
  OBVIOUS
<1> HIDE DEF st, ig
<1>3. /\ But(s, d, {"state", "ignore", "pgn", "id", "seq"})
      /\ d.state = st /\ d.ignore = ig /\ d.seq = f.seq
  BY <1>1 DEF NodeOK, Shape, But, NodeFields
<1>4. \A e : Kept(d, e) = Kept(s, e)
  <2>1. But(s, d, {"shown", "sent", "state", "ignore", "pgn", "id", "seq"})
    BY <1>3 DEF But
  <2> QED BY <2>1, SameKept
<1>5. /\ d.address = s.address /\ d.hu = s.hu /\ d.system = s.system
      /\ d.boot = s.boot /\ d.timer = s.timer /\ d.disco = s.disco
      /\ d.volume = s.volume /\ d.fade = s.fade /\ d.balance = s.balance /\ d.tone = s.tone
      /\ d.count = s.count /\ d.source = s.source /\ d.secondary = s.secondary
      /\ d.shown = s.shown /\ d.sent = s.sent
  BY <1>3 DEF But, NodeFields
<1>6. NodeOK(d)
  BY <1>3, <1>4, <1>5 DEF NodeOK, But, LifeOK, LevelsOK, Shows
<1> QED BY <1>2, <1>3, <1>4, <1>5, <1>6 DEF SameSource, StillShown, Shows, PlaceOf

\* An answer of the head unit, which no state continues.
LEMMA Answered ==
  ASSUME NEW s, NodeOK(s), NEW f, f.src = Stereo, f.pgn \in {"PRODUCT", "ANNOUNCE"},
         s.address # None, NEW u, u = HandleJ1939Message(s, f)
  PROVE  /\ NodeOK(u)
         /\ u.address = s.address /\ u.state \notin Spans /\ u.ignore = s.ignore
         /\ s.hu # None => u.hu # None
         /\ SameSource(s, u) /\ SourceShown(s, u)
<1> DEFINE t == [s EXCEPT !.state = f.pgn, !.pgn = f.pgn, !.id = f.id, !.seq = f.seq]
<1>1. u = IF f.pgn = "PRODUCT" THEN HandleProduct(t, f) ELSE HandleAnnounce(t, f)
  BY DEF HandleJ1939Message
<1>2. /\ But(s, t, {"state", "ignore", "pgn", "id", "seq"})
      /\ t.state = f.pgn /\ t.ignore = s.ignore
  BY DEF NodeOK, Shape, But, NodeFields
<1> HIDE DEF t
<1>3. \A e : Kept(t, e) = Kept(s, e)
  <2>1. But(s, t, {"shown", "sent", "state", "ignore", "pgn", "id", "seq"})
    BY <1>2 DEF But
  <2> QED BY <2>1, SameKept
<1>4. /\ t.address = s.address /\ t.hu = s.hu /\ t.system = s.system
      /\ t.boot = s.boot /\ t.timer = s.timer /\ t.disco = s.disco
      /\ t.volume = s.volume /\ t.fade = s.fade /\ t.balance = s.balance /\ t.tone = s.tone
      /\ t.count = s.count /\ t.source = s.source /\ t.secondary = s.secondary
      /\ t.shown = s.shown /\ t.sent = s.sent
  BY <1>2 DEF But, NodeFields
<1>5. NodeOK(t)
  BY <1>2, <1>3, <1>4 DEF NodeOK, But, LifeOK, LevelsOK, Shows
<1>6. Lives(t, u)
  BY <1>1, <1>5, AnswersHandled DEF NodeOK
<1>7. StillShown(s, t, {"SOURCE_STATE"})
  BY <1>3, <1>4 DEF StillShown, Shows
<1>8. NodeOK(u)
  BY <1>5, <1>6 DEF NodeOK, Lives, SameLevels, LevelsOK
<1>9. t.state \notin Spans
  BY <1>2 DEF Spans, Texts
<1> QED BY <1>2, <1>4, <1>6, <1>7, <1>8, <1>9 DEF Lives, SameSource, SourceShown, StillShown

\* A frame of a state that concerns the node.
LEMMA Reported ==
  ASSUME NEW s, NodeOK(s), NEW f, f.pgn = "STATE", f.src = s.hu, s.address # None,
         NEW d, d = Detect(s, f), f.seq = 0 \/ d.state \in Spans => Fits(d.state, f),
         NEW u, u = HandleJ1939Message(s, f)
  PROVE  Taken(d, f, u) /\ NodeOK(u)
<1>1. u = HandleState(d, f)
  BY DEF HandleJ1939Message
<1>2. NodeOK(d)
  BY Placed DEF PlaceOf
<1>3. Taken(d, f, u)
  <2>1. CASE f.seq = 0 \/ d.state \in Spans
    BY <1>1, <1>2, <2>1, StateHandled DEF NodeOK
  <2>2. CASE ~(f.seq = 0 \/ d.state \in Spans)
    <3>1. u = d
      BY <1>1, <2>2, LaterFrames
    <3>2. Plain(d, d) /\ d.state # "SOURCE"
      BY <1>2, <2>2, PlainSame DEF NodeOK, Spans
    <3>3. Levelled(d, u) /\ u.ignore = d.ignore
      BY <1>2, <3>1, <3>2, PlainLevels DEF NodeOK
    <3> QED BY <1>2, <3>2, <3>3, LevelledTaken DEF NodeOK
  <2> QED BY <2>1, <2>2
<1> QED BY <1>2, <1>3 DEF Taken, NodeOK

-----------------------------------------------------------------------------
(* The bus. *)

\* What is kept of the message under way.
WireOK ==
  /\ script \in Scripts
  /\ wire.message # None =>
       /\ wire.message \in Sendable(script)
       /\ wire.next \in 2 .. Len(wire.message.body)
  /\ loss \in {"none", "lost", "mending"}
  /\ ~script.loses => loss = "none"
  /\ ahead \in Seq(Sendable(script))

ClaimOK ==
  /\ claim \in {"none", "held", "lost"}
  /\ claim = "none" => node.address = None /\ node.hu = None /\ node.system = "UNAVAILABLE"
  /\ claim = "held" => node.address = Address
  /\ claim = "lost" => node.address = None
  /\ node.hu = None => node.state \notin Spans

\* Where the node believes to be in the messages.
Placement ==
  node.address # None /\ node.state \in Spans =>
    /\ node.seq \in Nat
    /\ wire.message = None /\ loss = "none" => node.seq # 0
    /\ wire.message # None /\ loss # "lost" => node.seq = wire.next - 2
    /\ wire.message # None /\ node.seq + 1 = wire.next - 1 =>
         head = wire.id /\ node.state = wire.message.kind

\* Where nothing is lost, the node ignores only the rest of a tone message.
Ignoring == ~script.loses /\ node.ignore => node.state = "TONE" /\ node.seq = 0

\* Where nothing is lost, the displays show the source but in the middle of its
\* message, which the node is then sure to understand.
SourceKnown ==
  ~script.loses /\ claim = "held" /\ node.system = "ON" =>
    \/ Shows(node, "SOURCE_STATE")
    \/ /\ wire.message # None /\ node.state = "SOURCE" /\ node.seq = 0 /\ ~node.ignore
       /\ node.source = node.secondary

\* The inductive invariant of the bus.
BusInv ==
  /\ Shape(node) /\ LifeOK(node) /\ LevelsOK(node) /\ node.sent = << >>
  /\ asked \subseteq {"PRODUCT", "ANNOUNCE"}
  /\ WireOK /\ ClaimOK /\ Placement /\ Ignoring /\ SourceKnown
  /\ ~mixed

\* The node as it is switched on.
LEMMA InitInvariant ==
  ASSUME Init
  PROVE  BusInv
<1> USE LimitsAssumption
<1>1. /\ node = Fresh /\ claim = "none" /\ asked = {} /\ loss = "none" /\ ~mixed
      /\ wire.message = None /\ script \in Scripts /\ ahead = script.boot
  BY DEF Init
<1>2. Shape(node)
  BY <1>1 DEF Fresh, Shape, NodeFields
<1>3. /\ node.address = None /\ node.hu = None /\ node.system = "UNAVAILABLE" /\ node.boot = "UNKNOWN"
      /\ node.disco = "running" /\ node.timer = "paused" /\ node.state = "INVALID" /\ node.ignore = FALSE
      /\ node.volume = 0 /\ node.fade = 0 /\ node.balance = 0 /\ node.tone = <<0, 0, 0>>
      /\ node.count = 0 /\ node.sent = << >>
  BY <1>1 DEF Fresh
<1>4. LifeOK(node)
  BY <1>3 DEF LifeOK, Systems, BootStates, Tickers
<1>5. LevelsOK(node)
  BY <1>3 DEF LevelsOK, MenuRows
<1>6. node.state \notin Spans
  BY <1>3 DEF Spans, Texts
<1>7. WireOK /\ ClaimOK
  <2>1. ahead \in Seq(Sendable(script))
    BY <1>1, ReportsAssumption
  <2> QED BY <1>1, <1>3, <1>6, <2>1 DEF WireOK, ClaimOK
<1>8. Placement /\ Ignoring /\ SourceKnown
  BY <1>1, <1>3, <1>6 DEF Placement, Ignoring, SourceKnown
<1> QED BY <1>1, <1>2, <1>3, <1>4, <1>5, <1>7, <1>8 DEF BusInv

\* Nothing to send.
LEMMA EmptyRequests == Requests(<< >>)
<1>1. << >> \in Seq({})
  OBVIOUS
<1> QED BY <1>1 DEF Requests

\* What the node does is sent, and its requests are remembered.
LEMMA Done ==
  ASSUME NEW u, NodeOK(u), NEW pending \in SUBSET {"PRODUCT", "ANNOUNCE"}, Does(u, pending)
  PROVE  /\ Shape(node') /\ LifeOK(node') /\ LevelsOK(node') /\ node'.sent = << >>
         /\ asked' \subseteq {"PRODUCT", "ANNOUNCE"}
         /\ node'.address = u.address /\ node'.hu = u.hu /\ node'.system = u.system
         /\ node'.state = u.state /\ node'.seq = u.seq /\ node'.ignore = u.ignore
         /\ node'.source = u.source /\ node'.secondary = u.secondary
         /\ Shows(u, "SOURCE_STATE") => Shows(node', "SOURCE_STATE")
<1>1. PICK t : t = [u EXCEPT !.sent = << >>]
  OBVIOUS
<1>2. node' = t /\ asked' = pending \cup Asked(u)
  BY <1>1 DEF Does
<1>3. But(u, t, {"sent"}) /\ t.sent = << >>
  BY <1>1 DEF NodeOK, Shape, But, NodeFields
<1>4. \A e : Kept(t, e) = Kept(u, e)
  <2>1. But(u, t, {"shown", "sent", "state", "ignore", "pgn", "id", "seq"})
    BY <1>3 DEF But
  <2> QED BY <2>1, SameKept
<1>5. /\ t.address = u.address /\ t.hu = u.hu /\ t.system = u.system
      /\ t.boot = u.boot /\ t.timer = u.timer /\ t.disco = u.disco
      /\ t.volume = u.volume /\ t.fade = u.fade /\ t.balance = u.balance /\ t.tone = u.tone
      /\ t.count = u.count /\ t.source = u.source /\ t.secondary = u.secondary
      /\ t.state = u.state /\ t.seq = u.seq /\ t.ignore = u.ignore /\ t.shown = u.shown
  BY <1>3 DEF But, NodeFields
<1>6. Shape(t) /\ LifeOK(t) /\ LevelsOK(t)
  BY <1>3, <1>4, <1>5 DEF NodeOK, But, LifeOK, LevelsOK, Shows
<1>7. Asked(u) \subseteq {"PRODUCT", "ANNOUNCE"}
  <2>1. PICK S : u.sent \in Seq(S)
    BY DEF NodeOK, Requests
  <2>2. DOMAIN u.sent = 1 .. Len(u.sent)
    BY <2>1
  <2> QED BY <2>2 DEF Asked, NodeOK, Requests
<1>8. Shows(u, "SOURCE_STATE") => Shows(t, "SOURCE_STATE")
  BY <1>4, <1>5 DEF Shows
<1> QED BY <1>2, <1>3, <1>5, <1>6, <1>7, <1>8

\* A step that leaves the bus and the node's place in its messages alone.
LEMMA QuietStep ==
  ASSUME BusInv, NEW u, NodeOK(u), Does(u, asked), BusUnchanged,
         u.address = node.address, u.state = node.state, u.seq = node.seq, u.ignore = node.ignore,
         node.hu # None => u.hu # None,
         claim = "none" => u.hu = None /\ u.system = "UNAVAILABLE",
         SameSource(node, u), SourceShown(node, u)
  PROVE  BusInv'
<1>1. /\ Shape(node') /\ LifeOK(node') /\ LevelsOK(node') /\ node'.sent = << >>
      /\ asked' \subseteq {"PRODUCT", "ANNOUNCE"}
      /\ node'.address = u.address /\ node'.hu = u.hu /\ node'.system = u.system
      /\ node'.state = u.state /\ node'.seq = u.seq /\ node'.ignore = u.ignore
      /\ node'.source = u.source /\ node'.secondary = u.secondary
      /\ Shows(u, "SOURCE_STATE") => Shows(node', "SOURCE_STATE")
  BY Done DEF BusInv
<1>2. UNCHANGED <<script, claim, ahead, wire, loss, head, mixed>>
  BY DEF BusUnchanged
<1>3. WireOK'
  BY <1>2 DEF BusInv, WireOK
<1>4. ClaimOK'
  BY <1>1, <1>2 DEF BusInv, ClaimOK
<1>5. Placement' /\ Ignoring'
  BY <1>1, <1>2 DEF BusInv, Placement, Ignoring
<1>6. SourceKnown'
  BY <1>1, <1>2 DEF BusInv, SourceKnown, SourceShown, StillShown, SameSource
<1>7. ~mixed'
  BY <1>2 DEF BusInv
<1> QED BY <1>1, <1>3, <1>4, <1>5, <1>6, <1>7 DEF BusInv

\* The node on its bus.
LEMMA BusNode ==
  ASSUME BusInv
  PROVE  NodeOK(node)
BY EmptyRequests DEF BusInv, NodeOK

\* Time passes.
LEMMA TicksKeep ==
  ASSUME BusInv, Tick
  PROVE  BusInv'
<1>1. NodeOK(node)
  BY BusNode
<1>2. PICK x \in {"timer", "disco"} :
        node[x] = "running" /\ node' = [node EXCEPT ![x] = "due"]
  BY DEF Tick
<1>3. /\ But(node, node', {x}) /\ node'[x] = "due"
  BY <1>1, <1>2 DEF NodeOK, Shape, But, NodeFields
<1>4. \A e : Kept(node', e) = Kept(node, e)
  <2>1. /\ node'.system = node.system /\ node'.volume = node.volume /\ node'.fade = node.fade
        /\ node'.balance = node.balance /\ node'.mute = node.mute /\ node'.tone = node.tone
        /\ node'.source = node.source /\ node'.bt = node.bt /\ node'.playback = node.playback
        /\ node'.seek = node.seek /\ node'.frequency = node.frequency /\ node'.gain = node.gain
        /\ node'.page = node.page /\ node'.item = node.item /\ node'.count = node.count
        /\ node'.entry = node.entry /\ node'.text = node.text
    BY <1>3 DEF But, NodeFields
  <2> QED BY <2>1 DEF Kept
<1>5. /\ node'.address = node.address /\ node'.hu = node.hu /\ node'.system = node.system
      /\ node'.boot = node.boot /\ node'.shown = node.shown /\ node'.sent = node.sent
      /\ node'.volume = node.volume /\ node'.fade = node.fade /\ node'.balance = node.balance
      /\ node'.tone = node.tone /\ node'.count = node.count
      /\ node'.state = node.state /\ node'.seq = node.seq /\ node'.ignore = node.ignore
      /\ node'.source = node.source /\ node'.secondary = node.secondary
  BY <1>3 DEF But, NodeFields
<1>6. Shape(node') /\ LifeOK(node') /\ LevelsOK(node') /\ node'.sent = << >>
  <2>1. /\ node'.timer \in Tickers /\ node'.disco \in Tickers
        /\ node.timer = "paused" => node'.timer = "paused"
    BY <1>1, <1>2, <1>3 DEF NodeOK, LifeOK, Tickers, But, NodeFields
  <2> QED BY <1>3, <1>4, <1>5, <2>1 DEF BusInv, LifeOK, LevelsOK, Shows, But
<1>7. UNCHANGED <<asked, script, claim, ahead, wire, loss, head, mixed>>
  BY DEF Tick, BusUnchanged
<1>8. WireOK' /\ ClaimOK' /\ Placement' /\ Ignoring'
  BY <1>5, <1>7 DEF BusInv, WireOK, ClaimOK, Placement, Ignoring
<1>9. SourceKnown'
  BY <1>4, <1>5, <1>7 DEF BusInv, SourceKnown, Shows
<1> QED BY <1>6, <1>7, <1>8, <1>9 DEF BusInv

\* The loop calls emit().
LEMMA EmitsKeep ==
  ASSUME BusInv, Emits
  PROVE  BusInv'
<1>1. NodeOK(node)
  BY BusNode
<1>2. PICK u : u = Emit(node)
  OBVIOUS
<1>3. Lives(node, u) /\ (node.address = None => u = node)
  BY <1>1, <1>2, Emitted DEF NodeOK
<1>4. NodeOK(u)
  BY <1>1, <1>3 DEF NodeOK, Lives, SameLevels, LevelsOK
<1>5. Does(u, asked) /\ BusUnchanged
  BY <1>2 DEF Emits
<1>6. claim = "none" => u.hu = None /\ u.system = "UNAVAILABLE"
  BY <1>3 DEF BusInv, ClaimOK
<1> QED BY <1>3, <1>4, <1>5, <1>6, QuietStep DEF Lives, SourceShown

\* The user gives a command.
LEMMA CommandsKeep ==
  ASSUME BusInv, UserCommand
  PROVE  BusInv'
<1>1. PICK c \in script.commands : Does(HandleCommand(node, c), asked)
  BY DEF UserCommand
<1>2. NodeOK(node) /\ c.name = "FADE_SET" => c.arg \in Int
  BY BusNode, ReportsAssumption DEF BusInv, WireOK
<1>3. PICK u : u = HandleCommand(node, c)
  OBVIOUS
<1>4. Levelled(node, u) /\ u.ignore = node.ignore
  BY <1>2, <1>3, BusNode, CommandHandled DEF NodeOK
<1>5. LifeOK(u)
  BY <1>4, BusNode DEF NodeOK, Levelled, Ordinary, SameLife, StillShown, LifeOK
<1>6. NodeOK(u)
  BY <1>4, <1>5, BusNode DEF NodeOK, Levelled, Ordinary
<1>7. claim = "none" => u.hu = None /\ u.system = "UNAVAILABLE"
  BY <1>4 DEF BusInv, ClaimOK, Levelled, Ordinary, SameLife
<1>8. SourceShown(node, u)
  BY <1>4 DEF Levelled, Ordinary, SameLife, SourceShown
<1>9. Does(u, asked) /\ BusUnchanged
  BY <1>1, <1>3 DEF UserCommand
<1> QED BY <1>4, <1>6, <1>7, <1>8, <1>9, QuietStep DEF Levelled, Ordinary, SameLife

\* A display asks for a state.
LEMMA RequestsKeep ==
  ASSUME BusInv, UserRequest
  PROVE  BusInv'
<1>1. PICK e : Does(HandleRequest(node, e), asked)
  BY DEF UserRequest
<1>2. NodeOK(node)
  BY BusNode
<1>3. PICK u : u = HandleRequest(node, e)
  OBVIOUS
<1>4. Plain(node, u)
  BY <1>2, <1>3, RequestHandled DEF NodeOK
<1>5. Lives(node, u)
  BY <1>2, <1>4, PlainLives DEF NodeOK
<1>6. NodeOK(u)
  BY <1>2, <1>5 DEF NodeOK, Lives, SameLevels, LevelsOK
<1>7. claim = "none" => u.hu = None /\ u.system = "UNAVAILABLE"
  BY <1>4 DEF BusInv, ClaimOK, Plain, Ordinary, SameLife
<1>8. Does(u, asked) /\ BusUnchanged
  BY <1>1, <1>3 DEF UserRequest
<1> QED BY <1>5, <1>6, <1>7, <1>8, QuietStep DEF Lives, SourceShown

\* The address is claimed, or given up.
LEMMA ClaimsKeep ==
  ASSUME BusInv, Claims
  PROVE  BusInv'
<1>1. PICK a : /\ \/ claim = "none" /\ a = Address /\ claim' = "held"
                  \/ claim = "held" /\ a = None /\ claim' = "lost"
               /\ Does(HandleJ1939Claim(node, a), asked)
  BY DEF Claims
<1>2. NodeOK(node) /\ a \in {None, Address}
  BY <1>1, BusNode
<1>3. PICK u : u = HandleJ1939Claim(node, a)
  OBVIOUS
<1>4. /\ Shape(u) /\ LifeOK(u)
      /\ u.address = a /\ u.state = node.state /\ u.seq = node.seq /\ u.ignore = node.ignore
      /\ u.hu = node.hu /\ u.system = node.system
      /\ SameLevels(node, u)
      /\ Requests(node.sent) => Requests(u.sent)
  BY <1>2, <1>3, ClaimHandled DEF NodeOK
<1>5. NodeOK(u)
  BY <1>2, <1>4 DEF NodeOK, SameLevels, LevelsOK
<1>6. Does(u, asked)
  BY <1>1, <1>3
<1>7. /\ Shape(node') /\ LifeOK(node') /\ LevelsOK(node') /\ node'.sent = << >>
      /\ asked' \subseteq {"PRODUCT", "ANNOUNCE"}
      /\ node'.address = u.address /\ node'.hu = u.hu /\ node'.system = u.system
      /\ node'.state = u.state /\ node'.seq = u.seq /\ node'.ignore = u.ignore
  BY <1>5, <1>6, Done DEF BusInv
<1>8. UNCHANGED <<script, ahead, wire, loss, head, mixed>>
  BY DEF Claims
<1>9. WireOK'
  BY <1>8 DEF BusInv, WireOK
<1>10. ClaimOK'
  BY <1>1, <1>4, <1>7 DEF BusInv, ClaimOK
<1>11. Placement'
  BY <1>1, <1>4, <1>7, <1>8 DEF BusInv, ClaimOK, Placement
<1>12. Ignoring'
  BY <1>4, <1>7, <1>8 DEF BusInv, Ignoring
<1>13. SourceKnown'
  BY <1>1, <1>4, <1>7 DEF BusInv, ClaimOK, SourceKnown
<1> QED BY <1>7, <1>8, <1>9, <1>10, <1>11, <1>12, <1>13 DEF BusInv

\* A frame that comes next: the first of a message, or the next of the one
\* under way.
Coming(m, i, id) ==
  /\ m \in Sendable(script)
  /\ i \in 1 .. Len(m.body)
  /\ \/ wire.message = None /\ i = 1
     \/ wire.message = m /\ i = wire.next /\ id = wire.id /\ i > 1

\* What the head unit sends.
LEMMA Messages ==
  ASSUME script \in Scripts, NEW m \in Sendable(script)
  PROVE  /\ m # None
         /\ Len(m.body) \in Nat \ {0}
         /\ m.kind \in Spans => Len(m.body) > 1
         /\ m.pgn = "STATE" \/ (m.pgn \in {"PRODUCT", "ANNOUNCE"} /\ m.kind = "NONE" /\ m.kind \notin Spans)
<1>1. CASE m \notin {Answer("PRODUCT"), Answer("ANNOUNCE")}
  BY <1>1, ReportsAssumption
<1>2. CASE m \in {Answer("PRODUCT"), Answer("ANNOUNCE")}
  <2>1. m # None
    BY <1>2, NoneAssumption
  <2>2. m.pgn \in {"PRODUCT", "ANNOUNCE"} /\ m.kind = "NONE" /\ m.body = <<<<0, 0>>, <<0, 0>>>>
    BY <1>2 DEF Answer
  <2>3. Len(m.body) = 2
    BY <2>2
  <2> QED BY <2>1, <2>2, <2>3 DEF Spans, Texts
<1> QED BY <1>1, <1>2

\* The node after a frame.
Received(m, i, id, u) ==
  /\ NodeOK(u)
  /\ u.address = node.address
  /\ claim = "none" => u.hu = None /\ u.system = "UNAVAILABLE"
  /\ u.hu = None => u.state \notin Spans
  /\ u.address # None /\ u.state \in Spans =>
       u.seq = i - 1 /\ u.state = m.kind /\ (i = 1 \/ head = id)
  /\ ~script.loses /\ u.ignore => u.state = "TONE" /\ u.seq = 0
  /\ ~script.loses /\ claim = "held" /\ u.system = "ON" =>
       \/ Shows(u, "SOURCE_STATE")
       \/ i = 1 /\ u.state = "SOURCE" /\ u.seq = 0 /\ ~u.ignore /\ u.source = u.secondary
  /\ m.pgn = "STATE" /\ i > 1 /\ head # id => Content(u) = Content(node)

\* Detection changes the node's place in the messages and nothing else.
LEMMA SameContent ==
  ASSUME NEW s, Shape(s), NEW d, But(s, d, {"state", "ignore", "pgn", "id", "seq"})
  PROVE  Content(d) = Content(s)
BY DEF Content, But, Shape, NodeFields

\* Frames the node does not listen to.
LEMMA Unheard ==
  ASSUME BusInv, NEW m, NEW i, NEW id, Coming(m, i, id),
         node.address = None \/ (node.hu = None /\ m.pgn = "STATE")
  PROVE  HandleJ1939Message(node, FrameOf(m, i, id)) = node /\ Received(m, i, id, node)
<1>1. HandleJ1939Message(node, FrameOf(m, i, id)) = node
  BY NoneAssumption DEF HandleJ1939Message, FrameOf
<1>2. NodeOK(node)
  BY BusNode
<1>3. node.address # None => node.state \notin Spans
  BY DEF BusInv, ClaimOK
<1>4. ~script.loses /\ claim = "held" /\ node.system = "ON" => Shows(node, "SOURCE_STATE")
  BY <1>3, NoneAssumption DEF BusInv, ClaimOK, SourceKnown, Spans
<1> QED BY <1>1, <1>2, <1>3, <1>4 DEF Received, BusInv, ClaimOK, Ignoring

\* An answer to one of its requests.
LEMMA AnswerReceived ==
  ASSUME BusInv, NEW m, NEW i, NEW id, Coming(m, i, id), node.address # None,
         m.pgn \in {"PRODUCT", "ANNOUNCE"}, m.kind \notin Spans
  PROVE  Received(m, i, id, HandleJ1939Message(node, FrameOf(m, i, id)))
<1>1. PICK f : f = FrameOf(m, i, id)
  OBVIOUS
<1>2. PICK u : u = HandleJ1939Message(node, f)
  OBVIOUS
<1>3. f.src = Stereo /\ f.pgn = m.pgn
  BY <1>1 DEF FrameOf
<1>4. /\ NodeOK(u)
      /\ u.address = node.address /\ u.state \notin Spans /\ u.ignore = node.ignore
      /\ node.hu # None => u.hu # None
      /\ SameSource(node, u) /\ SourceShown(node, u)
  BY <1>2, <1>3, Answered, BusNode
<1>5. claim # "none"
  BY DEF BusInv, ClaimOK
\* No message of the stereo is in progress.
<1>6. ASSUME ~script.loses, node.state \in Spans, node.seq = 0
      PROVE  FALSE
  <2>1. loss = "none"
    BY <1>6 DEF BusInv, WireOK
  <2>2. wire.message = m /\ i = wire.next /\ m # None
    BY <1>6, <2>1, Messages DEF BusInv, WireOK, Placement, Coming
  <2>3. wire.next \in Nat
    BY <2>2, Messages DEF BusInv, WireOK
  <2>4. node.seq = wire.next - 2
    BY <1>6, <2>1, <2>2 DEF BusInv, Placement
  <2>5. node.seq + 1 = wire.next - 1
    BY <2>3, <2>4
  <2>6. node.state = m.kind
    BY <1>6, <2>2, <2>5 DEF BusInv, Placement
  <2> QED BY <1>6, <2>6
<1>7. ~script.loses => ~u.ignore
  BY <1>4, <1>6 DEF BusInv, Ignoring, Spans
<1>8. ~script.loses /\ claim = "held" /\ u.system = "ON" => Shows(u, "SOURCE_STATE")
  BY <1>4, <1>6 DEF BusInv, SourceKnown, SourceShown, StillShown, Spans
<1> QED BY <1>1, <1>2, <1>4, <1>5, <1>7, <1>8 DEF Received

\* A frame of a report: after an isolated loss it is either the next one of
\* the message the node is in or it changes nothing.
LEMMA ReportReceived ==
  ASSUME BusInv, NEW m, NEW i, NEW id, Coming(m, i, id), node.address # None, node.hu # None,
         m.pgn = "STATE"
  PROVE  Received(m, i, id, HandleJ1939Message(node, FrameOf(m, i, id)))
<1>1. PICK f : f = FrameOf(m, i, id)
  OBVIOUS
<1>2. PICK u : u = HandleJ1939Message(node, f)
  OBVIOUS
<1>3. PICK d : d = Detect(node, f)
  OBVIOUS
<1>4. NodeOK(node) /\ node.hu = Stereo
  BY BusNode DEF BusInv, LifeOK
<1>5. /\ f.src = node.hu /\ f.pgn = "STATE" /\ f.seq = i - 1 /\ f.kind = m.kind
      /\ i \in Nat /\ i >= 1 /\ m \in Sendable(script) \ {Answer("PRODUCT"), Answer("ANNOUNCE")}
  <2>1. i \in Nat /\ i >= 1
    BY Messages DEF BusInv, WireOK, Coming
  <2>2. m \in Sendable(script) \ {Answer("PRODUCT"), Answer("ANNOUNCE")}
    BY DEF Coming, Answer
  <2> QED BY <1>1, <1>4, <2>1, <2>2 DEF FrameOf
<1>6. PlaceOf(node, f, d)
  BY <1>3, <1>4, Placed
<1>7. "INVALID" \notin Spans
  BY DEF Spans, Texts
<1>8. d.state \in Spans => d.state = m.kind /\ (i = 1 \/ head = id)
  <2>1. CASE i = 1
    BY <1>5, <1>6, <1>7, <2>1 DEF PlaceOf
  <2>2. CASE i # 1 /\ d.state \in Spans
    <3>1. f.seq # 0 /\ wire.message = m /\ i = wire.next /\ id = wire.id /\ m # None
      BY <1>5, <2>2, Messages DEF Coming, BusInv, WireOK
    <3>2. f.seq = node.seq + 1 /\ d.state = node.state
      BY <1>6, <1>7, <2>2, <3>1 DEF PlaceOf
    <3>3. node.seq + 1 = wire.next - 1
      BY <1>5, <3>1, <3>2
    <3> QED BY <2>2, <3>1, <3>2, <3>3 DEF BusInv, Placement
  <2> QED BY <2>1, <2>2
<1>9. f.seq = 0 \/ d.state \in Spans => Fits(d.state, f)
  <2>1. i = 1 \/ m.kind \in Spans => Fits(m.kind, FrameOf(m, i, None))
    BY <1>5, ReportsAssumption DEF BusInv, WireOK, Coming
  <2>2. Fits(m.kind, FrameOf(m, i, None)) => Fits(m.kind, f)
    BY <1>1 DEF Fits, FrameOf
  <2>3. Fits("INVALID", f)
    BY DEF Fits
  <2>4. f.seq = 0 => i = 1 /\ d.state \in {m.kind, "INVALID"}
    BY <1>5, <1>6 DEF PlaceOf
  <2> QED BY <1>8, <2>1, <2>2, <2>3, <2>4
<1>10. Taken(d, f, u) /\ NodeOK(u)
  BY <1>2, <1>3, <1>4, <1>5, <1>9, Reported
<1>11. u.state = d.state /\ u.seq = i - 1 /\ u.address = node.address /\ u.hu # None
  BY <1>5, <1>6, <1>10 DEF Taken, PlaceOf
\* Where nothing is lost, the node is where the message is.
<1>12. ASSUME ~script.loses, node.state \in Spans, node.seq = 0
       PROVE  i = 2 /\ f.seq = 1 /\ f.seq = node.seq + 1
  <2>1. loss = "none"
    BY <1>12 DEF BusInv, WireOK
  <2>2. wire.message = m /\ i = wire.next /\ m # None
    BY <1>12, <2>1, Messages DEF BusInv, WireOK, Placement, Coming
  <2>3. node.seq = wire.next - 2
    BY <1>12, <2>1, <2>2 DEF BusInv, Placement
  <2> QED BY <1>5, <1>12, <2>2, <2>3
<1>13. ~script.loses /\ u.ignore => u.state = "TONE" /\ u.seq = 0
  <2>1. ASSUME ~script.loses, d.ignore PROVE FALSE
    <3>1. node.ignore /\ (f.seq # 0 => f.seq # node.seq + 1)
      BY <1>6, <2>1 DEF PlaceOf
    <3>2. node.state \in Spans /\ node.seq = 0
      BY <2>1, <3>1 DEF BusInv, Ignoring, Spans
    <3>3. f.seq = 1 /\ f.seq = node.seq + 1
      BY <1>12, <2>1, <3>2
    <3> QED BY <3>1, <3>3
  <2> QED BY <1>5, <1>10, <1>11, <2>1 DEF Taken
<1>14. ASSUME ~script.loses, claim = "held", u.system = "ON"
       PROVE  \/ Shows(u, "SOURCE_STATE")
              \/ i = 1 /\ u.state = "SOURCE" /\ u.seq = 0 /\ ~u.ignore /\ u.source = u.secondary
  <2>1. CASE d.system = "ON" /\ ~Shows(d, "SOURCE_STATE")
    <3>1. /\ node.state = "SOURCE" /\ node.seq = 0 /\ ~node.ignore /\ node.source = node.secondary
      BY <1>6, <1>14, <2>1 DEF BusInv, SourceKnown, StillShown, PlaceOf
    <3>2. f.seq = 1 /\ d.state = "SOURCE"
      BY <1>6, <1>12, <1>14, <3>1 DEF Spans, PlaceOf
    <3>3. d.source = d.secondary
      BY <1>6, <3>1 DEF SameSource, PlaceOf
    <3> QED BY <1>10, <1>14, <3>2, <3>3 DEF Taken
  <2>2. CASE ~(d.system = "ON" /\ ~Shows(d, "SOURCE_STATE"))
    <3>1. SourceShown(d, u) => Shows(u, "SOURCE_STATE")
      BY <1>14, <2>2 DEF SourceShown, StillShown
    <3>2. \/ SourceShown(d, u)
          \/ d.state = "SOURCE" /\ f.seq = 0 /\ u.source = u.secondary
      BY <1>10 DEF Taken
    <3>3. d.state = "SOURCE" /\ f.seq = 0 => i = 1 /\ u.state = "SOURCE" /\ u.seq = 0 /\ ~u.ignore
      BY <1>5, <1>11, <1>13, <1>14
    <3> QED BY <3>1, <3>2, <3>3
  <2> QED BY <2>1, <2>2
<1>15. i > 1 /\ head # id => Content(u) = Content(node)
  <2>1. ASSUME i > 1, head # id PROVE u = d
    <3>1. d.state \notin Spans /\ f.seq # 0
      BY <1>5, <1>8, <2>1
    <3>2. u = HandleState(d, f)
      BY <1>2, <1>3, <1>5 DEF HandleJ1939Message
    <3> QED BY <3>1, <3>2, LaterFrames
  <2> QED BY <1>4, <1>6, <2>1, SameContent DEF NodeOK, PlaceOf
<1>16. claim # "none"
  BY DEF BusInv, ClaimOK
<1> QED BY <1>1, <1>2, <1>8, <1>10, <1>11, <1>13, <1>14, <1>15, <1>16 DEF Received

\* Any frame.
LEMMA FrameReceived ==
  ASSUME BusInv, NEW m, NEW i, NEW id, Coming(m, i, id)
  PROVE  Received(m, i, id, HandleJ1939Message(node, FrameOf(m, i, id)))
<1>1. m.pgn = "STATE" \/ (m.pgn \in {"PRODUCT", "ANNOUNCE"} /\ m.kind \notin Spans)
  BY Messages DEF BusInv, WireOK, Coming
<1>2. CASE node.address = None \/ (node.hu = None /\ m.pgn = "STATE")
  BY <1>2, Unheard
<1>3. CASE node.address # None /\ m.pgn \in {"PRODUCT", "ANNOUNCE"} /\ m.kind \notin Spans
  BY <1>3, AnswerReceived
<1>4. CASE node.address # None /\ node.hu # None /\ m.pgn = "STATE"
  BY <1>4, ReportReceived
<1> QED BY <1>1, <1>2, <1>3, <1>4

\* Messages that are over leave the rest of the boot to be sent.
LEMMA RestSendable ==
  ASSUME BusInv, NEW m, NEW i, NEW id, Onward(m, i, id)
  PROVE  script' = script /\ ahead' \in Seq(Sendable(script'))
<1>1. /\ script' = script
      /\ ahead' = ahead \/ (ahead # << >> /\ ahead' = Tail(ahead))
  BY DEF Onward
<1>2. ahead \in Seq(Sendable(script))
  BY DEF BusInv, WireOK
<1>3. PICK S : S = Sendable(script)
  OBVIOUS
<1>4. Sendable(script') = S
  BY <1>1, <1>3
<1>5. ahead' \in Seq(S)
  BY <1>1, <1>2, <1>3
<1> QED BY <1>1, <1>4, <1>5

\* A frame arrives.
LEMMA DeliverKeeps ==
  ASSUME BusInv, NEW m, NEW i, NEW id, Coming(m, i, id), Deliver(m, i, id)
  PROVE  BusInv'
<1>1. PICK u : u = HandleJ1939Message(node, FrameOf(m, i, id))
  OBVIOUS
<1>2. Received(m, i, id, u)
  BY <1>1, FrameReceived
<1>3. PICK l : l = IF loss = "lost" /\ i = 1 THEN "mending" ELSE loss
  OBVIOUS
<1>4. /\ Does(u, IF i = 1 THEN asked \ {m.pgn} ELSE asked)
      /\ head' = IF i = 1 THEN id ELSE head
      /\ mixed' = (mixed \/ (m.pgn = "STATE" /\ i > 1 /\ head # id /\ Content(u) # Content(node)))
      /\ loss' = IF l = "mending" /\ i = Len(m.body) THEN "none" ELSE l
      /\ Onward(m, i, id)
  BY <1>1, <1>3 DEF Deliver
<1>5. /\ wire' = IF i < Len(m.body) THEN [message |-> m, next |-> i + 1, id |-> id]
                                   ELSE [message |-> None, next |-> 0, id |-> id]
      /\ script' = script /\ claim' = claim
  BY <1>4 DEF Onward
<1>6. /\ m # None /\ Len(m.body) \in Nat \ {0} /\ i \in Nat /\ i >= 1 /\ i <= Len(m.body)
      /\ m.kind \in Spans => Len(m.body) > 1
  BY Messages DEF BusInv, WireOK, Coming
<1>7. /\ Shape(node') /\ LifeOK(node') /\ LevelsOK(node') /\ node'.sent = << >>
      /\ asked' \subseteq {"PRODUCT", "ANNOUNCE"}
      /\ node'.address = u.address /\ node'.hu = u.hu /\ node'.system = u.system
      /\ node'.state = u.state /\ node'.seq = u.seq /\ node'.ignore = u.ignore
      /\ node'.source = u.source /\ node'.secondary = u.secondary
      /\ Shows(u, "SOURCE_STATE") => Shows(node', "SOURCE_STATE")
  <2>1. (IF i = 1 THEN asked \ {m.pgn} ELSE asked) \in SUBSET {"PRODUCT", "ANNOUNCE"}
    BY DEF BusInv
  <2> QED BY <1>2, <1>4, <2>1, Done DEF Received
<1>8. WireOK'
  <2>1. wire'.message # None => /\ i < Len(m.body) /\ wire'.message = m /\ wire'.next = i + 1
    BY <1>5
  <2>2. wire'.message # None => wire'.next \in 2 .. Len(wire'.message.body)
    BY <1>6, <2>1
  <2>3. loss' \in {"none", "lost", "mending"} /\ (loss = "none" => loss' = "none")
    BY <1>3, <1>4 DEF BusInv, WireOK
  <2>4. ahead' \in Seq(Sendable(script'))
    BY <1>4, RestSendable
  <2>5. script' = script /\ script \in Scripts /\ m \in Sendable(script)
    BY <1>5 DEF BusInv, WireOK, Coming
  <2>6. Sendable(script') = Sendable(script)
    BY <2>5
  <2>7. ~script'.loses => loss' = "none"
    BY <2>3, <2>5 DEF BusInv, WireOK
  <2>8. wire'.message # None => wire'.message \in Sendable(script')
    BY <2>1, <2>5, <2>6
  <2> QED BY <2>2, <2>3, <2>4, <2>5, <2>7, <2>8 DEF WireOK
<1>9. ClaimOK'
  BY <1>2, <1>5, <1>7 DEF BusInv, ClaimOK, Received
<1>10. Placement'
  <2> SUFFICES ASSUME node'.address # None, node'.state \in Spans
               PROVE  /\ node'.seq \in Nat
                      /\ wire'.message = None /\ loss' = "none" => node'.seq # 0
                      /\ wire'.message # None /\ loss' # "lost" => node'.seq = wire'.next - 2
                      /\ wire'.message # None /\ node'.seq + 1 = wire'.next - 1 =>
                           head' = wire'.id /\ node'.state = wire'.message.kind
    BY DEF Placement
  <2>1. node'.seq = i - 1 /\ node'.state = m.kind /\ (i = 1 \/ head = id) /\ m.kind \in Spans
    BY <1>2, <1>7 DEF Received
  <2>2. head' = id
    BY <1>4, <2>1
  <2>3. CASE i < Len(m.body)
    BY <1>5, <1>6, <2>1, <2>2, <2>3
  <2>4. CASE ~(i < Len(m.body))
    <3>1. wire'.message = None /\ i > 1
      BY <1>5, <1>6, <2>1, <2>4
    <3> QED BY <1>6, <2>1, <3>1
  <2> QED BY <2>3, <2>4
<1>11. Ignoring'
  BY <1>2, <1>5, <1>7 DEF Ignoring, Received
<1>12. SourceKnown'
  <2> SUFFICES ASSUME ~script.loses, claim = "held", u.system = "ON"
               PROVE  \/ Shows(node', "SOURCE_STATE")
                      \/ /\ wire'.message # None /\ node'.state = "SOURCE" /\ node'.seq = 0
                         /\ ~node'.ignore /\ node'.source = node'.secondary
    BY <1>5, <1>7 DEF SourceKnown
  <2>1. CASE Shows(u, "SOURCE_STATE")
    BY <1>7, <2>1
  <2>2. CASE i = 1 /\ u.state = "SOURCE" /\ u.seq = 0 /\ ~u.ignore /\ u.source = u.secondary
    <3>1. u.address # None /\ u.state \in Spans
      BY <1>2, <2>2, NoneAssumption DEF BusInv, ClaimOK, Received, Spans
    <3>2. m.kind \in Spans
      BY <1>2, <3>1 DEF Received
    <3>3. wire'.message = m
      BY <1>5, <1>6, <2>2, <3>2
    <3> QED BY <1>6, <1>7, <2>2, <3>3
  <2> QED BY <1>2, <2>1, <2>2 DEF Received
<1>13. ~mixed'
  BY <1>2, <1>4 DEF BusInv, Received
<1> QED BY <1>7, <1>8, <1>9, <1>10, <1>11, <1>12, <1>13 DEF BusInv

\* A frame is lost.
LEMMA LoseKeeps ==
  ASSUME BusInv, NEW m, NEW i, NEW id, Coming(m, i, id), Lose(m, i, id)
  PROVE  BusInv'
<1>1. /\ script.loses /\ loss = "none" /\ loss' = "lost"
      /\ asked' = IF i = 1 THEN asked \ {m.pgn} ELSE asked
      /\ wire' = IF i < Len(m.body) THEN [message |-> m, next |-> i + 1, id |-> id]
                                   ELSE [message |-> None, next |-> 0, id |-> id]
      /\ script' = script /\ claim' = claim /\ node' = node /\ head' = head /\ mixed' = mixed
  BY DEF Lose, Onward
<1>2. /\ m # None /\ Len(m.body) \in Nat \ {0} /\ i \in Nat /\ i >= 1 /\ i <= Len(m.body)
  BY Messages DEF BusInv, WireOK, Coming
<1>3. WireOK'
  <2>1. wire'.message # None => /\ i < Len(m.body) /\ wire'.message = m /\ wire'.next = i + 1
    BY <1>1
  <2>2. wire'.message # None => wire'.next \in 2 .. Len(wire'.message.body)
    BY <1>2, <2>1
  <2>3. ahead' \in Seq(Sendable(script'))
    BY RestSendable DEF Lose
  <2>4. script' = script /\ script \in Scripts /\ m \in Sendable(script)
    BY <1>1 DEF BusInv, WireOK, Coming
  <2>5. Sendable(script') = Sendable(script)
    BY <2>4
  <2>6. wire'.message # None => wire'.message \in Sendable(script')
    BY <2>1, <2>4, <2>5
  <2> QED BY <1>1, <2>2, <2>3, <2>4, <2>6 DEF WireOK
<1>4. ClaimOK' /\ Ignoring'
  BY <1>1 DEF BusInv, ClaimOK, Ignoring
<1>5. Placement'
  <2> SUFFICES ASSUME node.address # None, node.state \in Spans, wire'.message # None
               PROVE  node.seq + 1 # wire'.next - 1
    BY <1>1 DEF BusInv, Placement
  <2>1. wire'.next = i + 1
    BY <1>1
  <2>2. CASE wire.message = None /\ i = 1
    <3>1. node.seq \in Nat /\ node.seq # 0
      BY <1>1, <2>2 DEF BusInv, Placement
    <3> QED BY <2>1, <2>2, <3>1
  <2>3. CASE wire.message = m /\ i = wire.next
    <3>1. node.seq = i - 2
      BY <1>1, <1>2, <2>3 DEF BusInv, Placement
    <3> QED BY <1>2, <2>1, <3>1
  <2> QED BY <2>2, <2>3 DEF Coming
<1>6. SourceKnown'
  BY <1>1 DEF SourceKnown
<1>7. asked' \subseteq {"PRODUCT", "ANNOUNCE"}
  BY <1>1 DEF BusInv
<1> QED BY <1>1, <1>3, <1>4, <1>5, <1>6, <1>7 DEF BusInv

\* The head unit begins a message.
LEMMA BeginKeeps ==
  ASSUME BusInv, Begin
  PROVE  BusInv'
<1>1. PICK m \in Offered, id \in {(wire.id + 1) % NumIds} :
        Deliver(m, 1, id) \/ Lose(m, 1, id)
  BY DEF Begin
<1>2. m \in Sendable(script)
  <2>1. CASE ahead = << >>
    BY <2>1 DEF Offered, Sendable, BusInv
  <2>2. CASE ahead # << >>
    <3>1. m = Head(ahead)
      BY <2>2 DEF Offered
    <3> QED BY <2>2, <3>1 DEF BusInv, WireOK
  <2> QED BY <2>1, <2>2
<1>3. Coming(m, 1, id)
  BY <1>2, Messages DEF Begin, Coming, BusInv, WireOK
<1> QED BY <1>1, <1>3, DeliverKeeps, LoseKeeps

\* It goes on with one.
LEMMA ContinueKeeps ==
  ASSUME BusInv, Continue
  PROVE  BusInv'
<1>1. Coming(wire.message, wire.next, wire.id)
  <2>1. /\ wire.message \in Sendable(script)
        /\ wire.next \in 2 .. Len(wire.message.body)
    BY DEF Continue, BusInv, WireOK
  <2>2. Len(wire.message.body) \in Nat
    BY <2>1, Messages DEF BusInv, WireOK
  <2> QED BY <2>1, <2>2 DEF Coming
<1>2. Deliver(wire.message, wire.next, wire.id) \/ Lose(wire.message, wire.next, wire.id)
  BY DEF Continue
<1> QED BY <1>1, <1>2, DeliverKeeps, LoseKeeps

\* Nothing happens.
LEMMA StutterKeeps ==
  ASSUME BusInv, UNCHANGED vars
  PROVE  BusInv'
BY DEF vars, BusInv, WireOK, ClaimOK, Placement, Ignoring, SourceKnown

\* Every step keeps the invariant.
LEMMA StepInvariant ==
  ASSUME BusInv, [Next]_vars
  PROVE  BusInv'
BY ClaimsKeep, TicksKeep, EmitsKeep, CommandsKeep, RequestsKeep, BeginKeeps, ContinueKeeps, StutterKeeps
   DEF Next

-----------------------------------------------------------------------------
(* Commands, and what the head unit makes of them. *)

\* A single frame comes back as one report.
LEMMA EchoOne ==
  ASSUME NEW s, NEW q, s.sent = <<q>>
  PROVE  Echo(s) = ReportBack(s, q)
<1> DEFINE F(g) == [i \in 0 .. 1 |-> IF i = 0 THEN s ELSE ReportBack(g[i - 1], s.sent[i])]
           w    == [i \in 0 .. 1 |-> IF i = 0 THEN s ELSE ReportBack(s, q)]
           h    == CHOOSE g : g = F(g)
<1>1. Len(s.sent) = 1 /\ s.sent[1] = q
  OBVIOUS
<1>2. w = F(w)
  <2>1. ASSUME NEW i \in 0 .. 1 PROVE w[i] = F(w)[i]
    <3>1. CASE i = 0
      BY <3>1
    <3>2. CASE i = 1
      <4>1. w[i - 1] = s
        BY <3>2
      <4> QED BY <1>1, <3>2, <4>1
    <3> QED BY <3>1, <3>2
  <2> QED BY <2>1
<1>3. h = F(h)
  BY <1>2
<1>4. Echo(s) = h[1]
  BY <1>1 DEF Echo
<1> HIDE DEF h, w
<1>5. h[0] = s
  BY <1>3
<1>6. h[1] = ReportBack(h[0], s.sent[1])
  BY <1>3
<1> QED BY <1>1, <1>4, <1>5, <1>6

\* Two frames come back one after the other.
LEMMA EchoTwo ==
  ASSUME NEW s, NEW q, NEW r, Len(s.sent) = 2, s.sent[1] = q, s.sent[2] = r
  PROVE  Echo(s) = ReportBack(ReportBack(s, q), r)
<1> DEFINE F(g) == [i \in 0 .. 2 |-> IF i = 0 THEN s ELSE ReportBack(g[i - 1], s.sent[i])]
           a    == ReportBack(s, q)
           b    == ReportBack(a, r)
           w    == [i \in 0 .. 2 |-> IF i = 0 THEN s ELSE IF i = 1 THEN a ELSE b]
           h    == CHOOSE g : g = F(g)
<1>1. Len(s.sent) = 2 /\ s.sent[1] = q /\ s.sent[2] = r
  OBVIOUS
<1>2. w = F(w)
  <2>1. ASSUME NEW i \in 0 .. 2 PROVE w[i] = F(w)[i]
    <3>1. CASE i = 0
      BY <3>1
    <3>2. CASE i = 1
      <4>1. w[i - 1] = s
        BY <3>2
      <4> QED BY <1>1, <3>2, <4>1
    <3>3. CASE i = 2
      <4>1. w[i - 1] = a
        BY <3>3
      <4> HIDE DEF a
      <4> QED BY <1>1, <3>3, <4>1
    <3> QED BY <3>1, <3>2, <3>3
  <2> QED BY <2>1
<1>3. h = F(h)
  BY <1>2
<1>4. Echo(s) = h[2]
  BY <1>1 DEF Echo
<1> HIDE DEF h, w
<1>5. h[0] = s
  BY <1>3
<1>6. h[1] = ReportBack(h[0], s.sent[1])
  BY <1>3
<1>7. h[2] = ReportBack(h[1], s.sent[2])
  BY <1>3
<1> QED BY <1>1, <1>4, <1>5, <1>6, <1>7

\* A volume and a fade, sent as the volumes of two zones: the larger zone is
\* the volume, and with a fade the node keeps its own.
LEMMA VolumeEcho ==
  ASSUME NEW s, Shape(s), LevelsOK(s), s.sent = << >>, NEW v \in 0 .. VolumeMax, NEW f \in Int
  PROVE  Levels(Echo(SendVolume(s, v, f))) = <<v, Clamp(f, -FadeMax, FadeMax), s.balance, s.tone>>
<1>1. PICK fade : fade = Clamp(f, -FadeMax, FadeMax)
  OBVIOUS
<1>2. fade \in Int
  BY <1>1 DEF Clamp
<1>3. PICK cut : cut = FadeMultiplier * fade
  OBVIOUS
<1>4. cut \in Int /\ (fade = 0 => cut = 0)
  BY <1>2, <1>3, MultiplierAssumption
<1>5. PICK zone1, zone2 :
        /\ zone1 = IF cut < 0 THEN Clamp(v + cut, 0, VolumeMax) ELSE v
        /\ zone2 = IF cut >= 0 THEN Clamp(v - cut, 0, VolumeMax) ELSE v
  OBVIOUS
<1>6. /\ zone1 \in Int /\ zone2 \in Int
      /\ v = IF zone1 > zone2 THEN zone1 ELSE zone2
      /\ fade = 0 => zone1 = zone2
  <2>1. VolumeMax \in Nat /\ v \in Int /\ 0 <= v /\ v <= VolumeMax
    BY LimitsAssumption
  <2>2. CASE cut < 0
    <3>1. zone2 = v /\ zone1 = Clamp(v + cut, 0, VolumeMax)
      BY <1>4, <1>5, <2>2
    <3>2. zone1 \in Int /\ zone1 <= v
      BY <1>4, <2>1, <2>2, <3>1 DEF Clamp
    <3> QED BY <1>4, <2>1, <2>2, <3>1, <3>2
  <2>3. CASE cut >= 0
    <3>1. zone1 = v /\ zone2 = Clamp(v - cut, 0, VolumeMax)
      BY <1>4, <1>5, <2>3
    <3>2. zone2 \in Int /\ zone2 <= v /\ (cut = 0 => zone2 = v)
      BY <1>4, <2>1, <2>3, <3>1 DEF Clamp
    <3> QED BY <1>4, <2>1, <3>1, <3>2
  <2> QED BY <1>4, <2>2, <2>3
<1>7. PICK t : t = [s EXCEPT !.fade = fade]
  OBVIOUS
<1>8. Shape(t) /\ t.fade = fade /\ t.sent = << >> /\ t.balance = s.balance /\ t.tone = s.tone
  BY <1>7 DEF Shape, NodeFields
<1>9. PICK q : q = <<"VOLUME", zone1, zone2>>
  OBVIOUS
<1>10. PICK w : w = Send(t, q)
  OBVIOUS
<1>11. Plain(t, w) /\ w.sent = <<q>>
  <2>1. w.sent = Append(t.sent, q)
    BY <1>8, <1>10 DEF Send, Shape, NodeFields
  <2>2. q[1] # "REQUEST"
    BY <1>9
  <2> QED BY <1>8, <1>10, <2>1, <2>2, PlainSend
<1>12. PICK u : u = SendVolume(s, v, f)
  OBVIOUS
<1>13. u = Yield(w, {"VOLUME_STATE"})
  BY <1>1, <1>3, <1>5, <1>7, <1>9, <1>10, <1>12 DEF SendVolume
<1>14. But(w, u, {"shown"})
  BY <1>11, <1>13, PlainShape, Yields
<1>15. Shape(u) /\ u.sent = <<q>> /\ u.fade = fade /\ u.balance = s.balance /\ u.tone = s.tone
  <2>1. u.sent = w.sent /\ u.fade = w.fade /\ u.balance = w.balance /\ u.tone = w.tone /\ Shape(u)
    BY <1>14 DEF But, NodeFields
  <2> QED BY <1>8, <1>11, <2>1 DEF Plain, SameLevels
<1>16. Echo(u) = ReportBack(u, q)
  BY <1>15, EchoOne
<1>17. PICK g : g = [seq |-> 0, x |-> zone1, y |-> zone2]
  OBVIOUS
<1>18. ReportBack(u, q) = HandleVolume(u, g)
  BY <1>9, <1>17 DEF ReportBack
<1>19. PICK r : r = [u EXCEPT !.volume = v, !.fade = fade]
  OBVIOUS
<1>20. HandleVolume(u, g) = YieldIf(r # u, r, {"VOLUME_STATE"})
  <2>1. /\ g.seq = 0 /\ g.x = zone1 /\ g.y = zone2
    BY <1>17
  <2>2. ~(g.x - g.y # 0 /\ u.fade = 0)
    BY <1>6, <1>15, <2>1
  <2> QED BY <1>6, <1>15, <1>19, <2>1, <2>2 DEF HandleVolume
<1>21. Levels(r) = <<v, fade, s.balance, s.tone>> /\ Shape(r)
  BY <1>15, <1>19 DEF Levels, Shape, NodeFields
<1>22. PICK c : c = (r # u)
  OBVIOUS
<1>23. Plain(r, YieldIf(c, r, {"VOLUME_STATE"}))
  BY <1>21, PlainYieldIf
<1>24. Levels(YieldIf(c, r, {"VOLUME_STATE"})) = Levels(r)
  BY <1>23 DEF Plain, SameLevels, Levels
<1> QED BY <1>1, <1>12, <1>16, <1>18, <1>20, <1>21, <1>22, <1>24

\* A frame more to send, and the levels as they were.
LEMMA SentOne ==
  ASSUME NEW s, Shape(s), NEW q, NEW u, u = Send(s, q)
  PROVE  Shape(u) /\ u.sent = Append(s.sent, q) /\ Levels(u) = Levels(s)
<1>1. u = [s EXCEPT !.sent = Append(s.sent, q)]
  BY DEF Send
<1>2. Shape(u) /\ u.sent = Append(s.sent, q)
  BY <1>1 DEF Shape, NodeFields
<1>3. u.volume = s.volume /\ u.fade = s.fade /\ u.balance = s.balance /\ u.tone = s.tone
  BY <1>1 DEF Shape, NodeFields
<1> QED BY <1>2, <1>3 DEF Levels

\* Two frames, and the levels as they were.
LEMMA SentTwo ==
  ASSUME NEW s, Shape(s), s.sent = << >>, NEW p, NEW q, NEW u, u = Send(Send(s, p), q)
  PROVE  Shape(u) /\ Len(u.sent) = 2 /\ u.sent[1] = p /\ u.sent[2] = q /\ Levels(u) = Levels(s)
<1>1. PICK t : t = Send(s, p)
  OBVIOUS
<1>2. Shape(t) /\ t.sent = Append(s.sent, p) /\ Levels(t) = Levels(s)
  BY <1>1, SentOne
<1>3. u = Send(t, q)
  BY <1>1
<1>4. Shape(u) /\ u.sent = Append(t.sent, q) /\ Levels(u) = Levels(t)
  BY <1>2, <1>3, SentOne
<1>5. t.sent \in Seq({p}) /\ Len(t.sent) = 1 /\ t.sent[1] = p
  BY <1>2
<1> QED BY <1>2, <1>4, <1>5

\* A step from within the limits.
LEMMA ClampedStep ==
  ASSUME NEW m \in Nat, NEW v \in -m .. m
  PROVE  /\ v + 1 \in Int /\ Clamp(v + 1, -m, m) = Min({v + 1, m})
         /\ v - 1 \in Int /\ Clamp(v - 1, -m, m) = Max({v - 1, -m})
         /\ v \in Int /\ Clamp(v, -m, m) = v
<1>1. v + 1 \in Int /\ v - 1 \in Int /\ -m \in Int /\ v \in Int /\ m \in Int
  OBVIOUS
<1>2. Min({v + 1, m}) = IF v + 1 <= m THEN v + 1 ELSE m
  BY <1>1, MinOfTwo
<1>3. Max({v - 1, -m}) = IF v - 1 >= -m THEN v - 1 ELSE -m
  BY <1>1, MaxOfTwo
<1> QED BY <1>1, <1>2, <1>3 DEF Clamp

\* A balance, sent for both zones; the report of the second zone is ignored.
LEMMA BalanceEcho ==
  ASSUME NEW s, Shape(s), s.sent = << >>, NEW b
  PROVE  Levels(Echo(SendBalance(s, b))) =
           <<s.volume, s.fade, Clamp(b, -BalanceMax, BalanceMax), s.tone>>
<1>1. PICK balance : balance = Clamp(b, -BalanceMax, BalanceMax)
  OBVIOUS
<1>2. PICK p, q : p = <<"BALANCE", 0, balance>> /\ q = <<"BALANCE", 1, balance>>
  OBVIOUS
<1>3. PICK u : u = SendBalance(s, b)
  OBVIOUS
<1>4. u = Send(Send(s, p), q)
  BY <1>1, <1>2, <1>3 DEF SendBalance
<1>5. Shape(u) /\ Len(u.sent) = 2 /\ u.sent[1] = p /\ u.sent[2] = q /\ Levels(u) = Levels(s)
  BY <1>4, SentTwo
<1>6. Echo(u) = ReportBack(ReportBack(u, p), q)
  BY <1>5, EchoTwo
<1>7. PICK g, h : g = [seq |-> 0, x |-> 0, y |-> balance] /\ h = [seq |-> 0, x |-> 1, y |-> balance]
  OBVIOUS
<1>8. \A t : ReportBack(t, p) = HandleBalance(t, g) /\ ReportBack(t, q) = HandleBalance(t, h)
  BY <1>2, <1>7 DEF ReportBack
<1>9. \A t : HandleBalance(t, h) = t
  BY <1>7 DEF HandleBalance
<1>10. PICK r : r = [u EXCEPT !.balance = balance]
  OBVIOUS
<1>11. PICK c : c = (r # u /\ u.system = "ON")
  OBVIOUS
<1>12. HandleBalance(u, g) = YieldIf(c, r, {"VOLUME_STATE"})
  BY <1>7, <1>10, <1>11 DEF HandleBalance
<1>13. Shape(r) /\ Levels(r) = <<s.volume, s.fade, balance, s.tone>>
  BY <1>5, <1>10 DEF Levels, Shape, NodeFields
<1>14. Levels(YieldIf(c, r, {"VOLUME_STATE"})) = Levels(r)
  BY <1>13, PlainYieldIf DEF Plain, SameLevels, Levels
<1> QED BY <1>1, <1>3, <1>6, <1>8, <1>9, <1>12, <1>13, <1>14

\* Three tone levels, sent for both zones and reported in two frames.
LEMMA ToneEcho ==
  ASSUME NEW s, Shape(s), LevelsOK(s), s.sent = << >>, NEW tone,
         NEW level, level = [i \in 1 .. 3 |-> Clamp(tone[i], -ToneMax, ToneMax)]
  PROVE  Levels(Echo(SendTone(s, tone))) = <<s.volume, s.fade, s.balance, level>>
<1>1. level = [i \in 1 .. 3 |-> Clamp(tone[i], -ToneMax, ToneMax)]
  OBVIOUS
<1>2. PICK p, q : p = <<"TONE", 0, level>> /\ q = <<"TONE", 1, level>>
  OBVIOUS
<1>3. PICK u : u = SendTone(s, tone)
  OBVIOUS
<1>4. u = Send(Send(s, p), q)
  BY <1>1, <1>2, <1>3 DEF SendTone
<1>5. Shape(u) /\ Len(u.sent) = 2 /\ u.sent[1] = p /\ u.sent[2] = q /\ Levels(u) = Levels(s)
  BY <1>4, SentTwo
<1>6. Echo(u) = ReportBack(ReportBack(u, p), q)
  BY <1>5, EchoTwo
<1>7. PICK g, h : /\ g = [seq |-> 0, x |-> 0, y |-> level[1]]
                  /\ h = [seq |-> 1, x |-> level[2], y |-> level[3]]
  OBVIOUS
<1>8. \A t : ReportBack(t, p) = HandleTone(HandleTone(t, g), h) /\ ReportBack(t, q) = t
  BY <1>2, <1>7 DEF ReportBack
<1>9. PICK r : r = [u EXCEPT !.tone[1] = level[1]]
  OBVIOUS
<1>10. PICK c : c = (r # u /\ u.system = "ON")
  OBVIOUS
<1>11. PICK v : v = YieldIf(c, r, {"TONE_STATE"})
  OBVIOUS
<1>12. HandleTone(u, g) = v
  BY <1>7, <1>9, <1>10, <1>11 DEF HandleTone
<1>13. Shape(v) /\ Levels(v) = <<s.volume, s.fade, s.balance, [s.tone EXCEPT ![1] = level[1]]>>
  <2>1. Shape(r) /\ Levels(r) = <<s.volume, s.fade, s.balance, [s.tone EXCEPT ![1] = level[1]]>>
    BY <1>5, <1>9 DEF Levels, Shape, NodeFields
  <2> QED BY <1>11, <2>1, PlainYieldIf DEF Plain, Ordinary, SameLevels, Levels
<1>14. PICK z : z = [v EXCEPT !.tone = [@ EXCEPT ![2] = level[2], ![3] = level[3]]]
  OBVIOUS
<1>15. PICK d : d = (z # v /\ v.system = "ON")
  OBVIOUS
<1>16. HandleTone(v, h) = YieldIf(d, z, {"TONE_STATE"})
  BY <1>7, <1>14, <1>15 DEF HandleTone
<1>17. Shape(z) /\ Levels(z) = <<s.volume, s.fade, s.balance, level>>
  <2>1. /\ Shape(z) /\ z.volume = v.volume /\ z.fade = v.fade /\ z.balance = v.balance
        /\ z.tone = [v.tone EXCEPT ![2] = level[2], ![3] = level[3]]
    BY <1>13, <1>14 DEF Shape, NodeFields
  <2>2. v.tone = [s.tone EXCEPT ![1] = level[1]] /\ v.volume = s.volume /\ v.fade = s.fade /\ v.balance = s.balance
    BY <1>13 DEF Levels
  <2>3. z.tone = level
    BY <1>1, <2>1, <2>2 DEF LevelsOK
  <2> QED BY <2>1, <2>2, <2>3 DEF Levels
<1>18. Levels(YieldIf(d, z, {"TONE_STATE"})) = Levels(z)
  BY <1>17, PlainYieldIf DEF Plain, SameLevels, Levels
<1> QED BY <1>1, <1>3, <1>6, <1>8, <1>12, <1>16, <1>17, <1>18

\* The steps of volume and fade.
LEMMA VolumesMeant ==
  ASSUME NEW s, Shape(s), LevelsOK(s), s.sent = << >>, s.system = "ON",
         NEW name \in {"VOLUME_INC", "VOLUME_DEC", "FADE_FRONT", "FADE_REAR"}
  PROVE  Levels(Echo(HandleCommand(s, [name |-> name, arg |-> 0]))) = Meant(s, name)
<1>1. PICK c : c = [name |-> name, arg |-> 0]
  OBVIOUS
<1>2. c.name = name
  BY <1>1
<1>3. HandleCommand(s, c) = VolumeCommand(s, c)
  <2>1. HandleCommand(s, c) = OnCommand(s, c)
    BY DEF HandleCommand
  <2>2. c.name \in VolumeCommands
    BY <1>2 DEF VolumeCommands
  <2> QED BY <2>1, <2>2, GroupOf
<1>4. /\ VolumeMax \in Nat /\ FadeMax \in Nat
      /\ s.volume \in 0 .. VolumeMax /\ s.fade \in -FadeMax .. FadeMax
  BY LimitsAssumption DEF LevelsOK
<1>5. \A v \in 0 .. VolumeMax, f \in Int :
        Levels(Echo(SendVolume(s, v, f))) = <<v, Clamp(f, -FadeMax, FadeMax), s.balance, s.tone>>
  BY VolumeEcho
<1>6. CASE name = "VOLUME_INC"
  <2>1. VolumeCommand(s, c) = SendVolume(s, Min({s.volume + 1, VolumeMax}), s.fade)
    BY <1>2, <1>6 DEF VolumeCommand
  <2>2. Min({s.volume + 1, VolumeMax}) \in 0 .. VolumeMax
    BY <1>4, MinOfTwo
  <2>3. Meant(s, name) = <<Min({s.volume + 1, VolumeMax}), s.fade, s.balance, s.tone>>
    BY <1>6 DEF Meant
  <2>4. Clamp(s.fade, -FadeMax, FadeMax) = s.fade /\ s.fade \in Int
    BY <1>4 DEF Clamp
  <2> QED BY <1>1, <1>3, <1>5, <2>1, <2>2, <2>3, <2>4
<1>7. CASE name = "VOLUME_DEC"
  <2>1. VolumeCommand(s, c) = SendVolume(s, Max({s.volume - 1, 0}), s.fade)
    BY <1>2, <1>7 DEF VolumeCommand
  <2>2. Max({s.volume - 1, 0}) \in 0 .. VolumeMax
    BY <1>4, MaxOfTwo
  <2>3. Meant(s, name) = <<Max({s.volume - 1, 0}), s.fade, s.balance, s.tone>>
    BY <1>7 DEF Meant
  <2>4. Clamp(s.fade, -FadeMax, FadeMax) = s.fade /\ s.fade \in Int
    BY <1>4 DEF Clamp
  <2> QED BY <1>1, <1>3, <1>5, <2>1, <2>2, <2>3, <2>4
<1>8. CASE name = "FADE_FRONT"
  <2>1. VolumeCommand(s, c) = SendVolume(s, s.volume, s.fade + 1)
    BY <1>2, <1>8 DEF VolumeCommand
  <2>2. Clamp(s.fade + 1, -FadeMax, FadeMax) = Min({s.fade + 1, FadeMax}) /\ s.fade + 1 \in Int
    BY <1>4, MinOfTwo DEF Clamp
  <2>3. Meant(s, name) = <<s.volume, Min({s.fade + 1, FadeMax}), s.balance, s.tone>>
    BY <1>8 DEF Meant
  <2> QED BY <1>1, <1>3, <1>4, <1>5, <2>1, <2>2, <2>3
<1>9. CASE name = "FADE_REAR"
  <2>1. VolumeCommand(s, c) = SendVolume(s, s.volume, s.fade - 1)
    BY <1>2, <1>9 DEF VolumeCommand
  <2>2. Clamp(s.fade - 1, -FadeMax, FadeMax) = Max({s.fade - 1, -FadeMax}) /\ s.fade - 1 \in Int
    BY <1>4, MaxOfTwo DEF Clamp
  <2>3. Meant(s, name) = <<s.volume, Max({s.fade - 1, -FadeMax}), s.balance, s.tone>>
    BY <1>9 DEF Meant
  <2> QED BY <1>1, <1>3, <1>4, <1>5, <2>1, <2>2, <2>3
<1> QED BY <1>6, <1>7, <1>8, <1>9

\* The steps of the balance.
LEMMA BalanceMeant ==
  ASSUME NEW s, Shape(s), LevelsOK(s), s.sent = << >>, s.system = "ON",
         NEW name \in {"BALANCE_LEFT", "BALANCE_RIGHT"}
  PROVE  Levels(Echo(HandleCommand(s, [name |-> name, arg |-> 0]))) = Meant(s, name)
<1>1. PICK c : c = [name |-> name, arg |-> 0]
  OBVIOUS
<1>2. c.name = name
  BY <1>1
<1>3. HandleCommand(s, c) = VolumeCommand(s, c)
  <2>1. HandleCommand(s, c) = OnCommand(s, c)
    BY DEF HandleCommand
  <2>2. c.name \in VolumeCommands
    BY <1>2 DEF VolumeCommands
  <2> QED BY <2>1, <2>2, GroupOf
<1>4. BalanceMax \in Nat /\ s.balance \in -BalanceMax .. BalanceMax
  BY LimitsAssumption DEF LevelsOK
<1>5. CASE name = "BALANCE_LEFT"
  <2>1. VolumeCommand(s, c) = SendBalance(s, s.balance - 1)
    BY <1>2, <1>5 DEF VolumeCommand
  <2>2. Clamp(s.balance - 1, -BalanceMax, BalanceMax) = Max({s.balance - 1, -BalanceMax})
    BY <1>4, MaxOfTwo DEF Clamp
  <2>3. Meant(s, name) = <<s.volume, s.fade, Max({s.balance - 1, -BalanceMax}), s.tone>>
    BY <1>5 DEF Meant
  <2> QED BY <1>1, <1>3, <2>1, <2>2, <2>3, BalanceEcho
<1>6. CASE name = "BALANCE_RIGHT"
  <2>1. VolumeCommand(s, c) = SendBalance(s, s.balance + 1)
    BY <1>2, <1>6 DEF VolumeCommand
  <2>2. Clamp(s.balance + 1, -BalanceMax, BalanceMax) = Min({s.balance + 1, BalanceMax})
    BY <1>4, MinOfTwo DEF Clamp
  <2>3. Meant(s, name) = <<s.volume, s.fade, Min({s.balance + 1, BalanceMax}), s.tone>>
    BY <1>6 DEF Meant
  <2> QED BY <1>1, <1>3, <2>1, <2>2, <2>3, BalanceEcho
<1> QED BY <1>5, <1>6

\* The steps of the tone levels.
LEMMA ToneMeant ==
  ASSUME NEW s, Shape(s), LevelsOK(s), s.sent = << >>, s.system = "ON",
         NEW name \in {"TONE_BASS_INC", "TONE_MID_DEC", "TONE_TREBLE_INC"}
  PROVE  Levels(Echo(HandleCommand(s, [name |-> name, arg |-> 0]))) = Meant(s, name)
<1>1. PICK c : c = [name |-> name, arg |-> 0]
  OBVIOUS
<1>2. c.name = name
  BY <1>1
<1>3. HandleCommand(s, c) = ToneCommand(s, c)
  <2>1. HandleCommand(s, c) = OnCommand(s, c)
    BY DEF HandleCommand
  <2>2. c.name \in ToneCommands
    BY <1>2 DEF ToneCommands
  <2> QED BY <2>1, <2>2, GroupOf
<1>4. ToneMax \in Nat /\ s.tone \in [1 .. 3 -> -ToneMax .. ToneMax]
  BY LimitsAssumption DEF LevelsOK
\* The band that steps, and the two that stay.
<1>5. ASSUME NEW i \in 1 .. 3, NEW v \in Int, NEW w, w = Clamp(v, -ToneMax, ToneMax)
      PROVE  [k \in 1 .. 3 |-> Clamp([s.tone EXCEPT ![i] = v][k], -ToneMax, ToneMax)]
               = [s.tone EXCEPT ![i] = w]
  <2>1. \A k \in 1 .. 3 : Clamp(s.tone[k], -ToneMax, ToneMax) = s.tone[k]
    BY <1>4 DEF Clamp
  <2>2. ASSUME NEW k \in 1 .. 3
        PROVE  Clamp([s.tone EXCEPT ![i] = v][k], -ToneMax, ToneMax) = [s.tone EXCEPT ![i] = w][k]
    <3>1. CASE k = i
      BY <1>4, <1>5, <3>1
    <3>2. CASE k # i
      BY <1>4, <2>1, <3>2
    <3> QED BY <3>1, <3>2
  <2> QED BY <1>4, <2>2
<1>6. ASSUME NEW i \in 1 .. 3, NEW v \in Int, NEW w, w = Clamp(v, -ToneMax, ToneMax)
      PROVE  Levels(Echo(SendTone(s, [s.tone EXCEPT ![i] = v])))
               = <<s.volume, s.fade, s.balance, [s.tone EXCEPT ![i] = w]>>
  <2>1. PICK tone : tone = [s.tone EXCEPT ![i] = v]
    OBVIOUS
  <2>2. [k \in 1 .. 3 |-> Clamp(tone[k], -ToneMax, ToneMax)] = [s.tone EXCEPT ![i] = w]
    BY <1>5, <1>6, <2>1
  <2>3. PICK level : level = [s.tone EXCEPT ![i] = w]
    OBVIOUS
  <2>4. level = [k \in 1 .. 3 |-> Clamp(tone[k], -ToneMax, ToneMax)]
    BY <2>2, <2>3
  <2>5. Levels(Echo(SendTone(s, tone))) = <<s.volume, s.fade, s.balance, level>>
    BY <2>4, ToneEcho
  <2> QED BY <2>1, <2>3, <2>5
<1>7. \A i \in 1 .. 3 :
        /\ s.tone[i] + 1 \in Int
        /\ Clamp(s.tone[i] + 1, -ToneMax, ToneMax) = Min({s.tone[i] + 1, ToneMax})
        /\ s.tone[i] - 1 \in Int
        /\ Clamp(s.tone[i] - 1, -ToneMax, ToneMax) = Max({s.tone[i] - 1, -ToneMax})
  <2> TAKE i \in 1 .. 3
  <2>1. s.tone[i] \in -ToneMax .. ToneMax
    BY <1>4
  <2> QED BY <1>4, <2>1, ClampedStep
<1>8. CASE name = "TONE_BASS_INC"
  <2>1. ToneCommand(s, c) = SendTone(s, [s.tone EXCEPT ![1] = s.tone[1] + 1])
    BY <1>2, <1>8 DEF ToneCommand
  <2>2. Meant(s, name) =
          <<s.volume, s.fade, s.balance, [s.tone EXCEPT ![1] = Min({s.tone[1] + 1, ToneMax})]>>
    BY <1>8 DEF Meant
  <2>3. PICK v : v = s.tone[1] + 1
    OBVIOUS
  <2>4. v \in Int /\ Min({v, ToneMax}) = Clamp(v, -ToneMax, ToneMax)
    BY <1>7, <2>3
  <2>5. Levels(Echo(SendTone(s, [s.tone EXCEPT ![1] = v])))
          = <<s.volume, s.fade, s.balance, [s.tone EXCEPT ![1] = Min({v, ToneMax})]>>
    <3>1. PICK w : w = Min({v, ToneMax})
      OBVIOUS
    <3>2. 1 \in 1 .. 3 /\ v \in Int /\ w = Clamp(v, -ToneMax, ToneMax)
      BY <2>4, <3>1
    <3>3. Levels(Echo(SendTone(s, [s.tone EXCEPT ![1] = v])))
            = <<s.volume, s.fade, s.balance, [s.tone EXCEPT ![1] = w]>>
      BY <1>6, <3>2
    <3> QED BY <3>1, <3>3
  <2> QED BY <1>1, <1>3, <2>1, <2>2, <2>3, <2>5
<1>9. CASE name = "TONE_MID_DEC"
  <2>1. ToneCommand(s, c) = SendTone(s, [s.tone EXCEPT ![2] = s.tone[2] - 1])
    BY <1>2, <1>9 DEF ToneCommand
  <2>2. Meant(s, name) =
          <<s.volume, s.fade, s.balance, [s.tone EXCEPT ![2] = Max({s.tone[2] - 1, -ToneMax})]>>
    BY <1>9 DEF Meant
  <2>3. PICK v : v = s.tone[2] - 1
    OBVIOUS
  <2>4. v \in Int /\ Max({v, -ToneMax}) = Clamp(v, -ToneMax, ToneMax)
    BY <1>7, <2>3
  <2>5. Levels(Echo(SendTone(s, [s.tone EXCEPT ![2] = v])))
          = <<s.volume, s.fade, s.balance, [s.tone EXCEPT ![2] = Max({v, -ToneMax})]>>
    <3>1. PICK w : w = Max({v, -ToneMax})
      OBVIOUS
    <3>2. 2 \in 1 .. 3 /\ v \in Int /\ w = Clamp(v, -ToneMax, ToneMax)
      BY <2>4, <3>1
    <3>3. Levels(Echo(SendTone(s, [s.tone EXCEPT ![2] = v])))
            = <<s.volume, s.fade, s.balance, [s.tone EXCEPT ![2] = w]>>
      BY <1>6, <3>2
    <3> QED BY <3>1, <3>3
  <2> QED BY <1>1, <1>3, <2>1, <2>2, <2>3, <2>5
<1>10. CASE name = "TONE_TREBLE_INC"
  <2>1. ToneCommand(s, c) = SendTone(s, [s.tone EXCEPT ![3] = s.tone[3] + 1])
    BY <1>2, <1>10 DEF ToneCommand
  <2>2. Meant(s, name) =
          <<s.volume, s.fade, s.balance, [s.tone EXCEPT ![3] = Min({s.tone[3] + 1, ToneMax})]>>
    BY <1>10 DEF Meant
  <2>3. PICK v : v = s.tone[3] + 1
    OBVIOUS
  <2>4. v \in Int /\ Min({v, ToneMax}) = Clamp(v, -ToneMax, ToneMax)
    BY <1>7, <2>3
  <2>5. Levels(Echo(SendTone(s, [s.tone EXCEPT ![3] = v])))
          = <<s.volume, s.fade, s.balance, [s.tone EXCEPT ![3] = Min({v, ToneMax})]>>
    <3>1. PICK w : w = Min({v, ToneMax})
      OBVIOUS
    <3>2. 3 \in 1 .. 3 /\ v \in Int /\ w = Clamp(v, -ToneMax, ToneMax)
      BY <2>4, <3>1
    <3>3. Levels(Echo(SendTone(s, [s.tone EXCEPT ![3] = v])))
            = <<s.volume, s.fade, s.balance, [s.tone EXCEPT ![3] = w]>>
      BY <1>6, <3>2
    <3> QED BY <3>1, <3>3
  <2> QED BY <1>1, <1>3, <2>1, <2>2, <2>3, <2>5
<1> QED BY <1>8, <1>9, <1>10

-----------------------------------------------------------------------------
\* What the node, its bus and the displays agree on, whatever the head unit, the
\* bus and the user do (Fusion::handle and Fusion::emit).
THEOREM BusInductive == Spec => []BusInv
<1>1. Init => BusInv
  BY InitInvariant
<1>2. BusInv /\ [Next]_vars => BusInv'
  BY StepInvariant
<1> QED BY <1>1, <1>2, PTL DEF Spec

\* The node's record keeps its types: the boot and its tickers in their states,
\* fade_ and the menu rows within their limits, nothing left to send.
THEOREM StereoTypeCorrect == Spec => []TypeOK
<1>1. BusInv => TypeOK
  BY DEF BusInv, LifeOK, LevelsOK, TypeOK
<1> QED BY <1>1, BusInductive, PTL

\* While the stereo is on the state ticker is paused, so that emit() never
\* takes it for a boot or a power on without an answer and turns it off.
THEOREM TimerNeverTurnsOff == Spec => []OnUndisturbed
<1>1. BusInv => OnUndisturbed
  BY DEF BusInv, LifeOK, OnUndisturbed
<1> QED BY <1>1, BusInductive, PTL

\* While the stereo is on the displays show the state, the volume and the tone
\* the node keeps, whatever frames are lost; and its source between two
\* messages where none is lost.
THEOREM DisplaysShowStereo == Spec => []ShownCurrent
<1>1. ASSUME BusInv PROVE ShownCurrent
  BY <1>1 DEF BusInv, LifeOK, SourceKnown, ShownCurrent, Shows
<1> QED BY <1>1, BusInductive, PTL

\* After isolated losses detectState never takes a frame for part of a message
\* that it is not in.
THEOREM FramesAttributed == Spec => []Attributed
<1>1. BusInv => Attributed
  BY DEF BusInv, Attributed
<1> QED BY <1>1, BusInductive, PTL

\* A step of volume, fade, balance or tone, sent to the head unit and reported
\* back, moves that level of the node by one and no other.
THEOREM LevelsMoveAsMeant == Spec => []EchoAsMeant
<1>1. ASSUME BusInv PROVE EchoAsMeant
  <2>1. Shape(node) /\ LevelsOK(node) /\ node.sent = << >>
    BY <1>1 DEF BusInv
  <2> QED BY <2>1, VolumesMeant, BalanceMeant, ToneMeant DEF EchoAsMeant
<1> QED BY <1>1, BusInductive, PTL
=============================================================================
