-------------------------- MODULE MqttPacingProofs --------------------------
(***************************************************************************)
(* MqttPacing, for any intervals, values, clock steps and delays, however  *)
(* the listener's messages interleave with the ticker's: while the clock   *)
(* does not jump ahead, two messages of the ticker in one session are at   *)
(* least mqtt_min_interval_s apart; while it is not set back, the broker   *)
(* hears the state again within the floor, and a change within the ceiling,*)
(* or within one turn of the ticker.                                       *)
(***************************************************************************)
EXTENDS MqttPacing, SequenceTheorems, TLAPS

\* What the ceiling needs to know of the configuration.
RightOrder == MinInterval <= Interval

\* No more wall time than real time since the ticker's last message, until the
\* history is capped or the clock has jumped ahead.
Behind(wall, o, f) == f \/ wall <= o \/ o = Never

Messages == [by : {"ticker", "listener"}, topic : {"state", "position"},
             says : Values, age : Int, spent : Int]

TickerState(m) == m.by = "ticker" /\ m.topic = "state"

\* Each task awaits at most one message, and it is the one its state names.
Single(q, t, l) ==
    /\ \A j, k \in 1..Len(q) : q[j].by = q[k].by => j = k
    /\ \A k \in 1..Len(q) : q[k].topic = IF q[k].by = "ticker" THEN t ELSE l

\* A state message that no message of the ticker follows was issued no earlier
\* than the ticker's last one.
Fits(q, o, f) ==
    \A k \in 1..Len(q) :
       q[k].topic = "state" /\ (\A j \in (k + 1)..Len(q) : ~TickerState(q[j]))
          => Behind(q[k].age, o, f)

\* The inductive invariant: last_publish_at, once the ticker is not awaiting a
\* state message, is never older than the ticker's last one.
Paced ==
    /\ inflight \in Seq(Messages)
    /\ ticker \in {"sleep", "state", "position"}
    /\ listener \in {"wait", "announce", "state", "position"}
    /\ elapsed \in Int /\ own \in 0..Never /\ gap \in 0..Never
    /\ first \in BOOLEAN /\ forth \in BOOLEAN /\ value \in Values
    /\ Single(inflight, ticker, listener)
    /\ Fits(inflight, own, forth)
    /\ ticker # "state" /\ ~first => Behind(elapsed, own, forth)
    /\ ticker # "state" /\ first => own = Never

LEMMA Parameters ==
    /\ Interval \in Nat /\ MinInterval \in Nat /\ MaxWrite \in Nat
    /\ Never \in Nat /\ Never >= MinInterval
    /\ ClockSteps \subseteq Int
<1>1. Interval \in Nat /\ MinInterval \in Nat /\ MaxWrite \in Nat
  BY ConstantsAssumption DEF ConstantsAssumption
<1> QED  BY <1>1, ConstantsAssumption DEF ConstantsAssumption, Never
-----------------------------------------------------------------------------
(* Queues of messages *)

LEMMA Member ==
  ASSUME NEW q \in Seq(Messages), NEW k \in 1..Len(q)
  PROVE  /\ q[k] \in Messages /\ q[k].by \in {"ticker", "listener"}
         /\ q[k].topic \in {"state", "position"} /\ q[k].age \in Int
<1>1. q[k] \in Messages
  BY ElementOfSeq
<1> QED  BY <1>1 DEF Messages

LEMMA Appended ==
  ASSUME NEW q \in Seq(Messages), NEW m \in Messages
  PROVE  /\ Append(q, m) \in Seq(Messages)
         /\ Len(q) \in Nat /\ Len(Append(q, m)) = Len(q) + 1
         /\ \A k \in 1..Len(q) : Append(q, m)[k] = q[k]
         /\ Append(q, m)[Len(q) + 1] = m
  BY AppendProperties, LenProperties

LEMMA Shifted ==
  ASSUME NEW q \in Seq(Messages), q # <<>>
  PROVE  /\ Tail(q) \in Seq(Messages)
         /\ Len(q) \in Nat /\ Len(q) >= 1
         /\ Len(Tail(q)) = Len(q) - 1
         /\ \A k \in 1..(Len(q) - 1) : Tail(q)[k] = q[k + 1]
         /\ Head(q) = q[1] /\ q[1] \in Messages
  BY HeadTailProperties, LenProperties, ElementOfSeq

LEMMA NothingSent ==
  ASSUME NEW t, NEW l, NEW o, NEW f
  PROVE  <<>> \in Seq(Messages) /\ Single(<<>>, t, l) /\ Fits(<<>>, o, f)
<1>1. <<>> \in Seq(Messages) /\ Len(<<>>) = 0
  OBVIOUS
<1>2. 1..Len(<<>>) = {}
  BY <1>1
<1> QED  BY <1>1, <1>2 DEF Single, Fits

\* A task that awaits nothing may issue a message.
LEMMA AppendSingle ==
  ASSUME NEW q \in Seq(Messages), NEW m \in Messages, NEW t, NEW l,
         NEW u, NEW v, Single(q, t, l),
         \A k \in 1..Len(q) : q[k].by # m.by,
         m.by = "ticker" => m.topic = u /\ v = l,
         m.by = "listener" => m.topic = v /\ u = t
  PROVE  Single(Append(q, m), u, v)
<1>1. PICK r : r = Append(q, m)
  OBVIOUS
<1>2. /\ Len(q) \in Nat /\ Len(r) = Len(q) + 1
      /\ \A k \in 1..Len(q) : r[k] = q[k]
      /\ r[Len(q) + 1] = m
  BY <1>1, Appended
<1>3. \A k \in 1..Len(q) : q[k].by \in {"ticker", "listener"}
  BY Member
<1>4. m.by \in {"ticker", "listener"}
  BY DEF Messages
<1>5. ASSUME NEW j \in 1..Len(r), NEW k \in 1..Len(r), r[j].by = r[k].by
      PROVE  j = k
  <2>1. CASE j \in 1..Len(q) /\ k \in 1..Len(q)
    BY <1>2, <1>5, <2>1 DEF Single
  <2>2. CASE j = Len(q) + 1 \/ k = Len(q) + 1
    BY <1>2, <1>5, <2>2
  <2> QED  BY <1>2, <2>1, <2>2
<1>6. ASSUME NEW k \in 1..Len(r)
      PROVE  r[k].topic = IF r[k].by = "ticker" THEN u ELSE v
  <2>1. CASE k \in 1..Len(q)
    <3>1. q[k].topic = IF q[k].by = "ticker" THEN t ELSE l
      BY <2>1 DEF Single
    <3>2. q[k].by # m.by /\ q[k].by \in {"ticker", "listener"} /\ r[k] = q[k]
      BY <1>2, <1>3, <2>1
    <3>3. CASE m.by = "ticker"
      BY <3>1, <3>2, <3>3
    <3>4. CASE m.by = "listener"
      BY <3>1, <3>2, <3>4
    <3> QED  BY <1>4, <3>3, <3>4
  <2>2. CASE k = Len(q) + 1
    BY <1>2, <1>4, <2>2
  <2> QED  BY <1>2, <2>1, <2>2
<1> QED  BY <1>1, <1>5, <1>6 DEF Single

\* A message just issued fits: the ticker's state message starts its own clock.
LEMMA AppendFits ==
  ASSUME NEW q \in Seq(Messages), NEW m \in Messages, NEW o \in Nat,
         NEW p \in Nat, NEW f, Fits(q, o, f), m.age = 0,
         TickerState(m) => p = 0,
         ~TickerState(m) => p = o
  PROVE  Fits(Append(q, m), p, f)
<1>1. PICK r : r = Append(q, m)
  OBVIOUS
<1>2. /\ Len(q) \in Nat /\ Len(r) = Len(q) + 1
      /\ \A k \in 1..Len(q) : r[k] = q[k]
      /\ r[Len(q) + 1] = m
  BY <1>1, Appended
<1>3. ASSUME NEW k \in 1..Len(r), r[k].topic = "state",
             \A j \in (k + 1)..Len(r) : ~TickerState(r[j])
      PROVE  Behind(r[k].age, p, f)
  <2>1. CASE k \in 1..Len(q)
    <3>1. Len(q) + 1 \in (k + 1)..Len(r)
      BY <1>2, <2>1
    <3>2. ~TickerState(m)
      BY <1>2, <1>3, <3>1
    <3>3. \A j \in (k + 1)..Len(q) : j \in (k + 1)..Len(r) /\ r[j] = q[j]
      BY <1>2, <2>1
    <3>4. \A j \in (k + 1)..Len(q) : ~TickerState(q[j])
      BY <1>3, <3>3
    <3> QED  BY <1>2, <1>3, <2>1, <3>2, <3>4 DEF Fits
  <2>2. CASE k = Len(q) + 1
    BY <1>2, <2>2 DEF Behind
  <2> QED  BY <1>2, <2>1, <2>2
<1> QED  BY <1>1, <1>3 DEF Fits

\* The oldest message returns: its task awaits nothing any more.
LEMMA TailSingle ==
  ASSUME NEW q \in Seq(Messages), q # <<>>, NEW t, NEW l, NEW u, NEW v,
         Single(q, t, l),
         Head(q).by = "ticker" => v = l,
         Head(q).by = "listener" => u = t
  PROVE  /\ Single(Tail(q), u, v)
         /\ \A k \in 1..Len(Tail(q)) : Tail(q)[k].by # Head(q).by
<1>1. PICK r : r = Tail(q)
  OBVIOUS
<1>2. /\ Len(q) \in Nat /\ Len(q) >= 1 /\ Len(r) = Len(q) - 1
      /\ \A k \in 1..(Len(q) - 1) : r[k] = q[k + 1]
      /\ Head(q) = q[1]
  BY <1>1, Shifted
<1>3. \A k \in 1..Len(q) : q[k].by \in {"ticker", "listener"}
  BY Member
<1>4. ASSUME NEW k \in 1..Len(r)
      PROVE  k + 1 \in 1..Len(q) /\ k + 1 # 1 /\ r[k] = q[k + 1] /\ 1 \in 1..Len(q)
  BY <1>2
<1>5. ASSUME NEW k \in 1..Len(r) PROVE r[k].by # q[1].by
  BY <1>4, <1>5 DEF Single
<1>6. ASSUME NEW j \in 1..Len(r), NEW k \in 1..Len(r), r[j].by = r[k].by
      PROVE  j = k
  <2>1. j + 1 = k + 1
    BY <1>4, <1>6 DEF Single
  <2> QED  BY <2>1
<1>7. ASSUME NEW k \in 1..Len(r)
      PROVE  r[k].topic = IF r[k].by = "ticker" THEN u ELSE v
  <2>1. r[k].topic = IF r[k].by = "ticker" THEN t ELSE l
    BY <1>4 DEF Single
  <2>2. /\ r[k].by \in {"ticker", "listener"} /\ q[1].by \in {"ticker", "listener"}
        /\ r[k].by # q[1].by
    BY <1>3, <1>4, <1>5
  <2>3. CASE q[1].by = "ticker"
    BY <1>2, <2>1, <2>2, <2>3
  <2>4. CASE q[1].by = "listener"
    BY <1>2, <2>1, <2>2, <2>4
  <2> QED  BY <2>2, <2>3, <2>4
<1> QED  BY <1>1, <1>2, <1>5, <1>6, <1>7 DEF Single

LEMMA TailFits ==
  ASSUME NEW q \in Seq(Messages), q # <<>>, NEW o, NEW f, Fits(q, o, f)
  PROVE  Fits(Tail(q), o, f)
<1>1. PICK r : r = Tail(q)
  OBVIOUS
<1>2. /\ Len(q) \in Nat /\ Len(q) >= 1 /\ Len(r) = Len(q) - 1
      /\ \A k \in 1..(Len(q) - 1) : r[k] = q[k + 1]
  BY <1>1, Shifted
<1>3. ASSUME NEW k \in 1..Len(r), r[k].topic = "state",
             \A j \in (k + 1)..Len(r) : ~TickerState(r[j])
      PROVE  Behind(r[k].age, o, f)
  <2>1. k + 1 \in 1..Len(q) /\ r[k] = q[k + 1]
    BY <1>2
  <2>2. ASSUME NEW j \in ((k + 1) + 1)..Len(q) PROVE ~TickerState(q[j])
    <3>1. j - 1 \in (k + 1)..Len(r) /\ j - 1 \in 1..(Len(q) - 1) /\ (j - 1) + 1 = j
      BY <1>2
    <3>2. r[j - 1] = q[j]
      BY <1>2, <3>1
    <3> QED  BY <1>3, <3>1, <3>2
  <2> QED  BY <1>3, <2>1, <2>2 DEF Fits
<1> QED  BY <1>1, <1>3 DEF Fits

\* What returns to the ticker, or to the listener while the ticker awaits no
\* state message, is no older than the ticker's last message.
LEMMA HeadFits ==
  ASSUME NEW q \in Seq(Messages), q # <<>>, NEW t, NEW l, NEW o, NEW f,
         Single(q, t, l), Fits(q, o, f), Head(q).topic = "state",
         Head(q).by = "ticker" \/ t # "state"
  PROVE  Behind(Head(q).age, o, f)
<1>1. Len(q) \in Nat /\ Len(q) >= 1 /\ Head(q) = q[1]
  BY Shifted
<1>2. ASSUME NEW j \in 2..Len(q) PROVE ~TickerState(q[j])
  <2>1. j \in 1..Len(q) /\ 1 \in 1..Len(q) /\ j # 1
    BY <1>1
  <2> QED  BY <1>1, <2>1 DEF Single, TickerState
<1>3. 1 \in 1..Len(q) /\ (1 + 1)..Len(q) = 2..Len(q)
  BY <1>1
<1> QED  BY <1>1, <1>2, <1>3 DEF Fits

\* Time passes, or the clock is stepped: the messages stay what they are.
LEMMA AgedSeq ==
  ASSUME NEW q \in Seq(Messages), NEW r, r = [k \in DOMAIN q |-> r[k]],
         \A k \in DOMAIN q : r[k] \in Messages
  PROVE  r \in Seq(Messages) /\ Len(r) = Len(q) /\ DOMAIN q = 1..Len(q)
<1>1. Len(q) \in Nat /\ DOMAIN q = 1..Len(q)
  BY LenProperties
<1>2. r \in [1..Len(q) -> Messages]
  BY <1>1
<1>3. r \in Seq(Messages)
  BY <1>1, <1>2, SeqDef
<1>4. DOMAIN r = 1..Len(q)
  BY <1>1
<1> QED  BY <1>1, <1>3, <1>4, LenProperties

LEMMA AgedSingle ==
  ASSUME NEW q, NEW r, NEW t, NEW l, Single(q, t, l), Len(r) = Len(q),
         \A k \in 1..Len(q) : r[k].by = q[k].by /\ r[k].topic = q[k].topic
  PROVE  Single(r, t, l)
  BY DEF Single

LEMMA AgedFits ==
  ASSUME NEW q \in Seq(Messages), NEW r, NEW o, NEW p, NEW f, NEW g,
         Fits(q, o, f), Len(r) = Len(q),
         \A k \in 1..Len(q) : r[k].by = q[k].by /\ r[k].topic = q[k].topic,
         \A k \in 1..Len(q) : Behind(q[k].age, o, f) => Behind(r[k].age, p, g)
  PROVE  Fits(r, p, g)
<1>1. Len(q) \in Nat
  BY LenProperties
<1>2. ASSUME NEW k \in 1..Len(r), r[k].topic = "state",
             \A j \in (k + 1)..Len(r) : ~TickerState(r[j])
      PROVE  Behind(r[k].age, p, g)
  <2>1. \A j \in (k + 1)..Len(q) : j \in 1..Len(q)
    BY <1>1, <1>2
  <2>2. \A j \in (k + 1)..Len(q) : ~TickerState(q[j])
    BY <1>1, <1>2, <2>1 DEF TickerState
  <2>3. Behind(q[k].age, o, f)
    BY <1>1, <1>2, <2>2 DEF Fits
  <2> QED  BY <1>2, <2>3
<1> QED  BY <1>2 DEF Fits
-----------------------------------------------------------------------------
(* The steps *)

LEMMA MessageFacts ==
  ASSUME value \in Values, NEW task \in {"ticker", "listener"},
         NEW topic \in {"state", "position"}
  PROVE  /\ Message(task, topic) \in Messages
         /\ Message(task, topic).by = task /\ Message(task, topic).topic = topic
         /\ Message(task, topic).age = 0
  BY DEF Message, Messages

\* A task that neither awaits a state nor a position has nothing in flight.
LEMMA NothingInFlight ==
  ASSUME Paced
  PROVE  /\ ticker = "sleep" => \A k \in 1..Len(inflight) : inflight[k].by # "ticker"
         /\ listener \in {"wait", "announce"} =>
               \A k \in 1..Len(inflight) : inflight[k].by # "listener"
<1>1. ASSUME NEW k \in 1..Len(inflight)
      PROVE  /\ inflight[k].topic \in {"state", "position"}
             /\ inflight[k].topic = IF inflight[k].by = "ticker" THEN ticker
                                    ELSE listener
  BY Member DEF Paced, Single
<1> QED  BY <1>1

\* The end of an awaited publish, possibly followed by that of the position.
LEMMA StepReturns ==
  ASSUME Paced, inflight # <<>>,
         NEW sends \in BOOLEAN, AndThen(Head(inflight).by, sends),
         NEW t, NEW l,
         Head(inflight).by = "ticker" => l = listener /\ (sends => t = "position"),
         Head(inflight).by = "listener" => t = ticker /\ (sends => l = "position")
  PROVE  /\ inflight' \in Seq(Messages)
         /\ Single(inflight', t, l)
         /\ Fits(inflight', own, forth)
<1> DEFINE q == Tail(inflight)
           b == Head(inflight).by
           m == Message(b, "position")
<1>1. inflight \in Seq(Messages) /\ own \in Nat
  BY Parameters DEF Paced
<1>2. q \in Seq(Messages) /\ Head(inflight) \in Messages
  BY <1>1, Shifted
<1>3. b \in {"ticker", "listener"}
  BY <1>2 DEF Messages
<1>4. Fits(q, own, forth)
  BY <1>1, TailFits DEF Paced
<1>5. /\ Single(q, t, l)
      /\ \A k \in 1..Len(q) : q[k].by # b
  BY <1>1, TailSingle DEF Paced
<1>6. m \in Messages /\ m.by = b /\ m.topic = "position" /\ m.age = 0
  BY <1>3, MessageFacts DEF Paced
<1>7. CASE sends
  <2>1. inflight' = Append(q, m)
    BY <1>7 DEF AndThen
  <2>2. Append(q, m) \in Seq(Messages)
    BY <1>2, <1>6, Appended
  <2>3. ~TickerState(m)
    BY <1>6 DEF TickerState
  <2> HIDE DEF q, m
  <2>4. Fits(Append(q, m), own, forth)
    BY <1>1, <1>2, <1>4, <1>6, <2>3, AppendFits
  <2>5. Single(Append(q, m), t, l)
    BY <1>2, <1>3, <1>5, <1>6, <1>7, AppendSingle
  <2> QED  BY <2>1, <2>2, <2>4, <2>5
<1>8. CASE ~sends
  BY <1>2, <1>4, <1>5, <1>8 DEF AndThen
<1> QED  BY <1>7, <1>8

\* The bookkeeping after a state publish.
LEMMA StepRecords ==
  ASSUME Paced, inflight # <<>>, Head(inflight).topic = "state",
         Record(Head(inflight))
  PROVE  /\ elapsed' \in Int /\ first' = FALSE
         /\ Head(inflight).by = "ticker" \/ ticker # "state"
               => Behind(elapsed', own, forth)
<1>1. inflight \in Seq(Messages)
  BY DEF Paced
<1>2. Head(inflight) \in Messages
  BY <1>1, Shifted
<1>3. elapsed' = Head(inflight).age /\ first' = FALSE
  BY DEF Record
<1>4. Head(inflight).age \in Int
  BY <1>2 DEF Messages
<1>5. Head(inflight).by = "ticker" \/ ticker # "state"
        => Behind(Head(inflight).age, own, forth)
  BY <1>1, HeadFits DEF Paced
<1> QED  BY <1>3, <1>4, <1>5

\* A message that ages stays what it is.
LEMMA Aged ==
  ASSUME NEW m \in Messages, NEW d \in Int, NEW n
  PROVE  /\ n = [m EXCEPT !.age = m.age + d] =>
               /\ n \in Messages /\ n.by = m.by /\ n.topic = m.topic /\ n.says = m.says
               /\ n.age = m.age + d /\ n.spent = m.spent
         /\ n = [m EXCEPT !.spent = m.spent + d] =>
               /\ n \in Messages /\ n.by = m.by /\ n.topic = m.topic /\ n.says = m.says
               /\ n.age = m.age /\ n.spent = m.spent + d
<1>1. /\ m.by \in {"ticker", "listener"} /\ m.topic \in {"state", "position"}
      /\ m.says \in Values /\ m.age \in Int /\ m.spent \in Int
      /\ m = [by |-> m.by, topic |-> m.topic, says |-> m.says, age |-> m.age,
              spent |-> m.spent]
  BY DEF Messages
<1>2. [m EXCEPT !.age = m.age + d] =
         [by |-> m.by, topic |-> m.topic, says |-> m.says, age |-> m.age + d,
          spent |-> m.spent]
  BY <1>1
<1>3. [m EXCEPT !.spent = m.spent + d] =
         [by |-> m.by, topic |-> m.topic, says |-> m.says, age |-> m.age,
          spent |-> m.spent + d]
  BY <1>1
<1> QED  BY <1>1, <1>2, <1>3 DEF Messages

\* A step of the clock and a second that passes leave what the messages say.
LEMMA LaterFacts ==
  ASSUME inflight \in Seq(Messages), NEW d \in Int, inflight' = Later(d)
  PROVE  /\ inflight' \in Seq(Messages) /\ Len(inflight') = Len(inflight)
         /\ \A k \in 1..Len(inflight) :
               /\ inflight'[k].by = inflight[k].by /\ inflight'[k].topic = inflight[k].topic
               /\ inflight'[k].says = inflight[k].says
               /\ inflight'[k].spent = inflight[k].spent
               /\ inflight'[k].age = inflight[k].age + d
<1>1. DOMAIN inflight = 1..Len(inflight)
  BY LenProperties
<1>2. inflight' = [k \in DOMAIN inflight |-> [inflight[k] EXCEPT !.age = @ + d]]
  BY DEF Later
<1>3. ASSUME NEW k \in DOMAIN inflight
      PROVE  /\ inflight'[k] \in Messages /\ inflight'[k].by = inflight[k].by
             /\ inflight'[k].topic = inflight[k].topic
             /\ inflight'[k].says = inflight[k].says
             /\ inflight'[k].spent = inflight[k].spent
             /\ inflight'[k].age = inflight[k].age + d
  <2>1. inflight[k] \in Messages
    BY <1>1, Member
  <2>2. inflight'[k] = [inflight[k] EXCEPT !.age = inflight[k].age + d]
    BY <1>2
  <2> QED  BY <2>1, <2>2, Aged
<1>4. inflight' = [k \in DOMAIN inflight |-> inflight'[k]]
  BY <1>2
<1> QED  BY <1>1, <1>3, <1>4, AgedSeq

LEMMA TickFacts ==
  ASSUME inflight \in Seq(Messages), Tick
  PROVE  /\ inflight' \in Seq(Messages) /\ Len(inflight') = Len(inflight)
         /\ \A k \in 1..Len(inflight) :
               /\ inflight'[k].by = inflight[k].by /\ inflight'[k].topic = inflight[k].topic
               /\ inflight'[k].says = inflight[k].says
               /\ inflight'[k].spent = inflight[k].spent + 1
               /\ inflight'[k].age = inflight[k].age + 1
<1>1. DOMAIN inflight = 1..Len(inflight)
  BY LenProperties
<1>2. inflight' = [k \in DOMAIN inflight |->
                    [inflight[k] EXCEPT !.age = @ + 1, !.spent = @ + 1]]
  BY DEF Tick
<1>3. ASSUME NEW k \in DOMAIN inflight
      PROVE  /\ inflight'[k] \in Messages /\ inflight'[k].by = inflight[k].by
             /\ inflight'[k].topic = inflight[k].topic
             /\ inflight'[k].says = inflight[k].says
             /\ inflight'[k].spent = inflight[k].spent + 1
             /\ inflight'[k].age = inflight[k].age + 1
  <2>1. PICK m \in Messages : m = inflight[k]
    BY <1>1, Member
  <2>2. PICK older : older = [m EXCEPT !.age = m.age + 1]
    OBVIOUS
  <2>3. /\ older \in Messages /\ older.by = m.by /\ older.topic = m.topic
        /\ older.says = m.says /\ older.spent = m.spent /\ older.age = m.age + 1
    BY <2>2, Aged
  <2>4. inflight'[k] = [older EXCEPT !.spent = older.spent + 1]
    BY <1>2, <2>1, <2>2 DEF Messages
  <2>5. PICK n : n = inflight'[k]
    OBVIOUS
  <2>6. /\ n \in Messages /\ n.by = older.by /\ n.topic = older.topic
        /\ n.says = older.says /\ n.spent = older.spent + 1 /\ n.age = older.age
    BY <2>3, <2>4, <2>5, Aged
  <2> QED  BY <2>1, <2>3, <2>5, <2>6
<1>4. inflight' = [k \in DOMAIN inflight |-> inflight'[k]]
  BY <1>2
<1> QED  BY <1>1, <1>3, <1>4, AgedSeq

\* Every step keeps the pace.
LEMMA StepPaced ==
  ASSUME Paced, [Next]_vars PROVE Paced'
<1>0. /\ Interval \in Nat /\ MinInterval \in Nat /\ Never \in Nat
      /\ Never >= MinInterval /\ own \in Nat /\ gap \in Nat
  BY Parameters DEF Paced
<1>1. CASE TickerPublish
  <2> DEFINE m == Message("ticker", "state")
  <2>1. ticker = "sleep" /\ ticker' = "state" /\ inflight' = Append(inflight, m)
    BY <1>1 DEF TickerPublish, Issue
  <2>2. m \in Messages /\ m.by = "ticker" /\ m.topic = "state" /\ m.age = 0
    BY MessageFacts DEF Paced
  <2>3. UNCHANGED <<value, first, elapsed, listener, forth>>
        /\ own' = 0 /\ gap' = own
    BY <1>1 DEF TickerPublish, Issue
  <2>4. \A k \in 1..Len(inflight) : inflight[k].by # "ticker"
    BY <2>1, NothingInFlight
  <2> HIDE DEF m
  <2>5. inflight \in Seq(Messages) /\ inflight' \in Seq(Messages)
    BY <2>1, <2>2, Appended DEF Paced
  <2>6. Single(inflight', "state", listener)
    BY <2>1, <2>2, <2>4, <2>5, AppendSingle DEF Paced
  <2>7. TickerState(m)
    BY <2>2 DEF TickerState
  <2>8. Fits(inflight', 0, forth)
    BY <1>0, <2>1, <2>2, <2>5, <2>7, AppendFits DEF Paced
  <2>9. own' \in 0..Never /\ gap' \in 0..Never
    BY <1>0, <2>3 DEF Paced
  <2> QED  BY <2>1, <2>3, <2>5, <2>6, <2>8, <2>9 DEF Paced
<1>2. CASE TickerSkip
  BY <1>2 DEF TickerSkip, history, Paced
<1>3. CASE TickerRecords
  <2>1. /\ ticker = "state" /\ inflight # <<>>
        /\ Head(inflight).by = "ticker" /\ Head(inflight).topic = "state"
        /\ Record(Head(inflight))
    BY <1>3 DEF TickerRecords, Returned
  <2>2. PICK sends \in BOOLEAN :
          /\ AndThen("ticker", sends)
          /\ ticker' = IF sends THEN "position" ELSE "sleep"
    BY <1>3 DEF TickerRecords
  <2>3. UNCHANGED <<value, listener, own, gap, forth>>
    BY <1>3 DEF TickerRecords, history
  <2>4. /\ inflight' \in Seq(Messages)
        /\ Single(inflight', ticker', listener)
        /\ Fits(inflight', own, forth)
    BY <2>1, <2>2, StepReturns
  <2>5. elapsed' \in Int /\ first' = FALSE /\ Behind(elapsed', own, forth)
    BY <2>1, StepRecords
  <2> QED  BY <2>2, <2>3, <2>4, <2>5 DEF Paced
<1>4. CASE TickerDone
  <2>1. /\ ticker = "position" /\ inflight # <<>> /\ Head(inflight).by = "ticker"
        /\ inflight' = Tail(inflight) /\ ticker' = "sleep"
        /\ UNCHANGED <<value, first, elapsed, listener, own, gap, forth>>
    BY <1>4 DEF TickerDone, Returned, history
  <2>2. AndThen("ticker", FALSE)
    BY <2>1 DEF AndThen
  <2>3. /\ inflight' \in Seq(Messages)
        /\ Single(inflight', "sleep", listener)
        /\ Fits(inflight', own, forth)
    BY <2>1, <2>2, StepReturns
  <2> QED  BY <2>1, <2>3 DEF Paced
<1>5. CASE HaOnline
  <2>1. /\ listener = "wait" /\ listener' = "announce"
        /\ UNCHANGED <<value, first, elapsed, ticker, inflight, own, gap, forth>>
    BY <1>5 DEF HaOnline, history
  <2>2. \A k \in 1..Len(inflight) : inflight[k].by = "ticker"
    BY <2>1, NothingInFlight, Member DEF Paced
  <2>3. Single(inflight, ticker, "announce")
    BY <2>2 DEF Paced, Single
  <2> QED  BY <2>1, <2>3 DEF Paced
<1>6. CASE ListenerPublish
  <2> DEFINE m == Message("listener", "state")
  <2>1. /\ listener = "announce" /\ listener' = "state"
        /\ inflight' = Append(inflight, m)
        /\ UNCHANGED <<value, first, elapsed, ticker, own, gap, forth>>
    BY <1>6 DEF ListenerPublish, Issue
  <2>2. m \in Messages /\ m.by = "listener" /\ m.topic = "state" /\ m.age = 0
    BY MessageFacts DEF Paced
  <2>3. \A k \in 1..Len(inflight) : inflight[k].by # "listener"
    BY <2>1, NothingInFlight
  <2> HIDE DEF m
  <2>4. inflight \in Seq(Messages) /\ inflight' \in Seq(Messages)
    BY <2>1, <2>2, Appended DEF Paced
  <2>5. Single(inflight', ticker, "state")
    BY <2>1, <2>2, <2>3, <2>4, AppendSingle DEF Paced
  <2>6. ~TickerState(m)
    BY <2>2 DEF TickerState
  <2>7. Fits(inflight', own, forth)
    BY <1>0, <2>1, <2>2, <2>4, <2>6, AppendFits DEF Paced
  <2> QED  BY <2>1, <2>4, <2>5, <2>7 DEF Paced
<1>7. CASE ListenerRecords
  <2>1. /\ listener = "state" /\ inflight # <<>>
        /\ Head(inflight).by = "listener" /\ Head(inflight).topic = "state"
        /\ Record(Head(inflight))
    BY <1>7 DEF ListenerRecords, Returned
  <2>2. PICK sends \in BOOLEAN :
          /\ AndThen("listener", sends)
          /\ listener' = IF sends THEN "position" ELSE "wait"
    BY <1>7 DEF ListenerRecords
  <2>3. UNCHANGED <<value, ticker, own, gap, forth>>
    BY <1>7 DEF ListenerRecords, history
  <2>4. /\ inflight' \in Seq(Messages)
        /\ Single(inflight', ticker, listener')
        /\ Fits(inflight', own, forth)
    BY <2>1, <2>2, StepReturns
  <2>5. /\ elapsed' \in Int /\ first' = FALSE
        /\ ticker # "state" => Behind(elapsed', own, forth)
    BY <2>1, StepRecords
  <2> QED  BY <2>2, <2>3, <2>4, <2>5 DEF Paced
<1>8. CASE ListenerDone
  <2>1. /\ listener = "position" /\ inflight # <<>>
        /\ Head(inflight).by = "listener"
        /\ inflight' = Tail(inflight) /\ listener' = "wait"
        /\ UNCHANGED <<value, first, elapsed, ticker, own, gap, forth>>
    BY <1>8 DEF ListenerDone, Returned, history
  <2>2. AndThen("listener", FALSE)
    BY <2>1 DEF AndThen
  <2>3. /\ inflight' \in Seq(Messages)
        /\ Single(inflight', ticker, "wait")
        /\ Fits(inflight', own, forth)
    BY <2>1, <2>2, StepReturns
  <2> QED  BY <2>1, <2>3 DEF Paced
<1>9. CASE Reconnect
  <2>1. /\ inflight' = <<>> /\ ticker' = "sleep" /\ listener' = "wait"
        /\ elapsed' = 0 /\ own' = Never /\ gap' = Never
        /\ first' = TRUE /\ forth' = FALSE /\ value' = value
    BY <1>9 DEF Reconnect
  <2>2. Single(inflight', ticker', listener') /\ Fits(inflight', own', forth')
        /\ inflight' \in Seq(Messages)
    BY <2>1, NothingSent
  <2>4. ~(ticker' # "state" /\ ~first')
    BY <2>1
  <2>5. ticker' \in {"sleep", "state", "position"}
        /\ listener' \in {"wait", "announce", "state", "position"}
    BY <2>1
  <2>6. elapsed' \in Int /\ own' \in 0..Never /\ gap' \in 0..Never
    BY <1>0, <2>1
  <2>7. first' \in BOOLEAN /\ forth' \in BOOLEAN /\ value' \in Values
    BY <2>1 DEF Paced
  <2> QED  BY <2>1, <2>2, <2>4, <2>5, <2>6, <2>7 DEF Paced
<1>10. CASE Change
  BY <1>10 DEF Change, history, Paced
<1>11. CASE ClockStep
  <2>1. PICK d \in ClockSteps : /\ elapsed' = elapsed + d /\ inflight' = Later(d)
                                /\ forth' = (forth \/ d > 0)
    BY <1>11 DEF ClockStep
  <2>2. d \in Int
    BY <2>1, Parameters
  <2>3. UNCHANGED <<value, first, ticker, listener, own, gap>>
    BY <1>11 DEF ClockStep
  <2>4. \A a \in Int : Behind(a, own, forth) => Behind(a + d, own, forth')
    <3> SUFFICES ASSUME NEW a \in Int, Behind(a, own, forth)
                 PROVE  Behind(a + d, own, forth')
      OBVIOUS
    <3>1. CASE forth
      BY <2>1, <3>1 DEF Behind
    <3>2. CASE d > 0
      BY <2>1, <3>2 DEF Behind
    <3>3. CASE ~forth /\ ~(d > 0)
      <4>1. a <= own \/ own = Never
        BY <3>3 DEF Behind
      <4>2. a + d <= own \/ own = Never
        BY <1>0, <2>2, <3>3, <4>1
      <4> QED  BY <4>2 DEF Behind
    <3> QED  BY <3>1, <3>2, <3>3
  <2>5. /\ inflight' \in Seq(Messages)
        /\ Single(inflight', ticker, listener)
        /\ Fits(inflight', own, forth')
    <3>1. /\ inflight \in Seq(Messages)
          /\ inflight' \in Seq(Messages) /\ Len(inflight') = Len(inflight)
          /\ \A k \in 1..Len(inflight) :
                /\ inflight'[k].by = inflight[k].by
                /\ inflight'[k].topic = inflight[k].topic
                /\ inflight'[k].age = inflight[k].age + d
      BY <2>1, <2>2, LaterFacts DEF Paced
    <3>2. \A k \in 1..Len(inflight) :
             Behind(inflight[k].age, own, forth) => Behind(inflight'[k].age, own, forth')
      BY <2>4, <3>1, Member
    <3>3. Single(inflight', ticker, listener)
      BY <3>1, AgedSingle DEF Paced
    <3>4. Fits(inflight', own, forth')
      BY <3>1, <3>2, AgedFits DEF Paced
    <3> QED  BY <3>1, <3>3, <3>4
  <2>6. elapsed' \in Int
    BY <2>1, <2>2 DEF Paced
  <2>7. ticker # "state" /\ ~first => Behind(elapsed', own, forth')
    BY <2>1, <2>4 DEF Paced
  <2>8. forth' \in BOOLEAN
    BY <2>1 DEF Paced
  <2> QED  BY <2>3, <2>5, <2>6, <2>7, <2>8 DEF Paced
<1>12. CASE Tick
  <2>1. UNCHANGED <<value, first, ticker, listener, gap, forth>>
    BY <1>12 DEF Tick
  <2>2. own' \in 0..Never /\ (own' = own + 1 \/ own' = Never)
        /\ (own = Never => own' = Never)
    <3>1. own' = IF own + 1 < Never THEN own + 1 ELSE Never
      BY <1>12 DEF Tick, Capped
    <3> QED  BY <1>0, <3>1
  <2>3. \A a \in Int : Behind(a, own, forth) => Behind(a + 1, own', forth)
    BY <1>0, <2>2 DEF Behind, Paced
  <2>4. /\ inflight' \in Seq(Messages)
        /\ Single(inflight', ticker, listener)
        /\ Fits(inflight', own', forth)
    <3>1. /\ inflight \in Seq(Messages)
          /\ inflight' \in Seq(Messages) /\ Len(inflight') = Len(inflight)
          /\ \A k \in 1..Len(inflight) :
                /\ inflight'[k].by = inflight[k].by
                /\ inflight'[k].topic = inflight[k].topic
                /\ inflight'[k].age = inflight[k].age + 1
      BY <1>12, TickFacts DEF Paced
    <3>2. \A k \in 1..Len(inflight) :
             Behind(inflight[k].age, own, forth) => Behind(inflight'[k].age, own', forth)
      BY <2>3, <3>1, Member
    <3>3. Single(inflight', ticker, listener)
      BY <3>1, AgedSingle DEF Paced
    <3>4. Fits(inflight', own', forth)
      BY <3>1, <3>2, AgedFits DEF Paced
    <3> QED  BY <3>1, <3>3, <3>4
  <2>5. elapsed' = IF first THEN 0 ELSE elapsed + 1
    BY <1>12 DEF Tick
  <2>6. elapsed' \in Int
    BY <2>5 DEF Paced
  <2>7. ticker # "state" /\ ~first => Behind(elapsed', own', forth)
    BY <2>3, <2>5 DEF Paced
  <2>8. ticker # "state" /\ first => own' = Never
    BY <2>2 DEF Paced
  <2> QED  BY <2>1, <2>2, <2>4, <2>6, <2>7, <2>8 DEF Paced
<1>13. CASE UNCHANGED vars
  BY <1>13 DEF vars, Paced
<1> QED
  BY <1>1, <1>2, <1>3, <1>4, <1>5, <1>6, <1>7, <1>8, <1>9, <1>10, <1>11, <1>12,
     <1>13 DEF Next

\* With the pace, the ceiling: only a message of the ticker starts a new gap.
LEMMA StepCeiling ==
  ASSUME RightOrder, Paced, CeilingKept, [Next]_vars PROVE CeilingKept'
<1>1. CASE TickerPublish
  <2>1. ticker = "sleep" /\ gap' = own /\ UNCHANGED forth
    BY <1>1 DEF TickerPublish, Issue
  <2>2. CASE first
    BY <2>1, <2>2, Parameters DEF Paced, CeilingKept
  <2>3. CASE ~first
    <3>1. elapsed >= MinInterval /\ elapsed \in Int
      BY <1>1, <2>3, Parameters DEF TickerPublish, should_publish, RightOrder, Paced
    <3>2. Behind(elapsed, own, forth)
      BY <2>1, <2>3 DEF Paced
    <3> QED  BY <2>1, <3>1, <3>2, Parameters DEF Behind, CeilingKept, Paced
  <2> QED  BY <2>2, <2>3
<1>2. CASE Reconnect
  BY <1>2, Parameters DEF Reconnect, CeilingKept
<1>3. ASSUME ~TickerPublish, ~Reconnect PROVE gap' = gap /\ (forth => forth')
  <2>1. CASE TickerSkip \/ TickerRecords \/ TickerDone
    BY <2>1 DEF TickerSkip, TickerRecords, TickerDone, history
  <2>2. CASE HaOnline \/ ListenerPublish \/ ListenerRecords \/ ListenerDone
    BY <2>2 DEF HaOnline, ListenerPublish, Issue, ListenerRecords, ListenerDone, history
  <2>3. CASE Change
    BY <2>3 DEF Change
  <2>4. CASE Tick
    BY <2>4 DEF Tick
  <2>5. CASE ClockStep
    <3>1. PICK d \in ClockSteps : gap' = gap /\ forth' = (forth \/ d > 0)
      BY <2>5 DEF ClockStep
    <3> QED  BY <3>1 DEF Paced
  <2>6. CASE UNCHANGED vars
    BY <2>6 DEF vars
  <2> QED  BY <1>3, <2>1, <2>2, <2>3, <2>4, <2>5, <2>6 DEF Next
<1> QED  BY <1>1, <1>2, <1>3 DEF CeilingKept

LEMMA InitPaced == Init => Paced
<1> SUFFICES ASSUME Init PROVE Paced
  OBVIOUS
<1>1. /\ inflight = <<>> /\ ticker = "sleep" /\ listener = "wait"
      /\ elapsed = 0 /\ own = Never /\ gap = Never
      /\ first = TRUE /\ forth = FALSE /\ value \in Values
  BY DEF Init
<1>2. Single(inflight, ticker, listener) /\ Fits(inflight, own, forth)
      /\ inflight \in Seq(Messages)
  BY <1>1, NothingSent
<1>3. ~(ticker # "state" /\ ~first)
  BY <1>1
<1>4. elapsed \in Int /\ own \in 0..Never /\ gap \in 0..Never
  BY <1>1, Parameters
<1> QED  BY <1>1, <1>2, <1>3, <1>4 DEF Paced

\* Never more often than the ceiling: two messages the ticker sends in a session
\* are at least mqtt_min_interval_s apart in real time, however slow the broker
\* is, however often Home Assistant restarts and however far the clock is
\* stepped back, provided it is not stepped forward and the two intervals are
\* configured in the right order.
THEOREM CeilingAlwaysKept == ASSUME RightOrder PROVE Spec => []CeilingKept
<1>1. Init => Paced /\ CeilingKept
  <2>1. Init => CeilingKept
    BY Parameters DEF Init, CeilingKept
  <2> QED  BY <2>1, InitPaced
<1>2. Paced /\ CeilingKept /\ [Next]_vars => Paced' /\ CeilingKept'
  BY StepPaced, StepCeiling
<1> QED  BY <1>1, <1>2, PTL DEF Spec
-----------------------------------------------------------------------------
(* The floor, and changes *)

\* The document the broker shows is the one of the newest state message in
\* flight, which was sent when `since` began.
NewestState(q, k) ==
    q[k].topic = "state" /\ \A j \in (k + 1)..Len(q) : q[j].topic # "state"

Shows(q, r, s) ==
    \A k \in 1..Len(q) : NewestState(q, k) => q[k].says = r /\ q[k].spent = s

NoState(q) == \A k \in 1..Len(q) : q[k].topic # "state"

\* No message takes longer than MaxWrite, and the wall clock agrees unless it has
\* been stepped back.
Prompt(q, b) ==
    \A k \in 1..Len(q) : q[k].spent \in 0..MaxWrite /\ (b \/ q[k].age >= q[k].spent)

\* A ticker that awaits its own message is within its turn.
InTurn(q, s) ==
    \A k \in 1..Len(q) : q[k].by = "ticker" =>
       s <= q[k].spent + (IF q[k].topic = "state" THEN 0 ELSE MaxWrite)

\* The inductive invariant of the floor and of prompt changes, beside Paced.
Timely ==
    /\ since \in 0..Never /\ stale \in 0..Never /\ left \in {0, 1}
    /\ prev \in Values \cup {None} /\ retained \in Values \cup {None}
    /\ back \in BOOLEAN /\ steps \in 0..MaxSteps
    /\ Prompt(inflight, back) /\ Shows(inflight, retained, since)
    /\ InTurn(inflight, since)
    /\ ticker # "sleep" => /\ retained # None
                           /\ \E k \in 1..Len(inflight) : inflight[k].by = "ticker"
    /\ NoState(inflight) /\ first => retained = None
    /\ NoState(inflight) /\ ~first => prev = retained /\ (back \/ elapsed >= since)
    /\ ticker = "sleep" /\ ~back /\ retained # None
          => since <= Interval - left \/ since <= Turn - left
    /\ ticker = "sleep" /\ ~back => stale <= MinInterval - left \/ stale <= Turn - left
    /\ stale <= since /\ (stale > 0 => Overdue(value))

LEMMA Turns == Turn \in Nat /\ Turn = 2 * MaxWrite + 1 /\ MaxWrite < Never /\ None \notin Values
  BY Parameters, ConstantsAssumption DEF Turn, Never, ConstantsAssumption

LEMMA Spent ==
  ASSUME NEW q \in Seq(Messages), NEW k \in 1..Len(q)
  PROVE  /\ q[k].spent \in Int /\ q[k].says \in Values
         /\ q[k].topic # "state" => q[k].topic = "position"
<1>1. q[k] \in Messages
  BY ElementOfSeq
<1> QED  BY <1>1 DEF Messages

\* Two tasks, two messages at most, so one is the newest.
LEMMA AtMostTwo ==
  ASSUME NEW q \in Seq(Messages), NEW t, NEW l, Single(q, t, l)
  PROVE  Len(q) \in 0..2
<1>1. Len(q) \in Nat
  BY LenProperties
<1>2. ASSUME Len(q) > 2 PROVE FALSE
  <2>1. 1 \in 1..Len(q) /\ 2 \in 1..Len(q) /\ 3 \in 1..Len(q)
    BY <1>1, <1>2
  <2>2. /\ q[1].by \in {"ticker", "listener"} /\ q[2].by \in {"ticker", "listener"}
        /\ q[3].by \in {"ticker", "listener"}
    BY <2>1, Member
  <2>3. q[1].by # q[2].by /\ q[2].by # q[3].by /\ q[1].by # q[3].by
    BY <2>1 DEF Single
  <2> QED  BY <2>2, <2>3
<1>3. PICK n \in Nat : n = Len(q)
  BY <1>1
<1> QED  BY <1>2, <1>3

LEMMA SomeNewest ==
  ASSUME NEW q \in Seq(Messages), NEW t, NEW l, Single(q, t, l), ~NoState(q)
  PROVE  \E k \in 1..Len(q) : NewestState(q, k)
<1>1. PICK n \in 0..2 : n = Len(q)
  BY AtMostTwo
<1>2. PICK k \in 1..Len(q) : q[k].topic = "state"
  BY DEF NoState
<1>3. CASE k = Len(q)
  <2>1. (k + 1)..Len(q) = {}
    BY <1>1, <1>3
  <2> QED  BY <1>2, <2>1 DEF NewestState
<1>4. CASE k # Len(q)
  <2>1. k = 1 /\ Len(q) = 2 /\ 2 \in 1..Len(q)
    BY <1>1, <1>2, <1>4
  <2>2. (1 + 1)..Len(q) = {2} /\ (2 + 1)..Len(q) = {}
    BY <2>1
  <2> QED  BY <1>2, <2>1, <2>2 DEF NewestState
<1> QED  BY <1>3, <1>4

LEMMA AppendState ==
  ASSUME NEW q \in Seq(Messages), NEW m \in Messages, NEW b, Prompt(q, b),
         m.topic = "state", m.age = 0, m.spent = 0
  PROVE  /\ Prompt(Append(q, m), b) /\ Shows(Append(q, m), m.says, 0)
         /\ InTurn(Append(q, m), 0) /\ ~NoState(Append(q, m))
<1>1. PICK r : r = Append(q, m)
  OBVIOUS
<1>2. /\ Len(q) \in Nat /\ Len(r) = Len(q) + 1
      /\ \A k \in 1..Len(q) : r[k] = q[k]
      /\ r[Len(q) + 1] = m
  BY <1>1, Appended
<1>3. Len(r) \in 1..Len(r) /\ r[Len(r)] = m
  BY <1>2
<1>4. Prompt(r, b)
  <2> SUFFICES ASSUME NEW k \in 1..Len(r)
               PROVE  r[k].spent \in 0..MaxWrite /\ (b \/ r[k].age >= r[k].spent)
    BY DEF Prompt
  <2>1. CASE k \in 1..Len(q)
    BY <1>2, <2>1 DEF Prompt
  <2>2. CASE k = Len(q) + 1
    BY <1>2, <2>2, Parameters
  <2> QED  BY <1>2, <2>1, <2>2
<1>5. Shows(r, m.says, 0)
  <2> SUFFICES ASSUME NEW k \in 1..Len(r), NewestState(r, k) PROVE r[k] = m
    BY DEF Shows
  <2>1. CASE k # Len(r)
    <3>1. Len(r) \in (k + 1)..Len(r)
      BY <1>2, <2>1
    <3> QED  BY <1>3, <3>1 DEF NewestState
  <2> QED  BY <1>3, <2>1
<1>6. InTurn(r, 0)
  BY <1>4, Parameters DEF Prompt, InTurn
<1> QED  BY <1>1, <1>3, <1>4, <1>5, <1>6 DEF NoState

LEMMA AppendPosition ==
  ASSUME NEW q \in Seq(Messages), NEW m \in Messages, NEW b, NEW v, NEW s \in Nat,
         Prompt(q, b), Shows(q, v, s), InTurn(q, s),
         m.topic = "position", m.age = 0, m.spent = 0,
         s <= MaxWrite \/ ~(m.by = "ticker")
  PROVE  /\ Prompt(Append(q, m), b) /\ Shows(Append(q, m), v, s)
         /\ InTurn(Append(q, m), s)
         /\ NoState(Append(q, m)) => NoState(q)
<1>1. PICK r : r = Append(q, m)
  OBVIOUS
<1>2. /\ Len(q) \in Nat /\ Len(r) = Len(q) + 1
      /\ \A k \in 1..Len(q) : r[k] = q[k]
      /\ r[Len(q) + 1] = m
  BY <1>1, Appended
<1>3. ASSUME NEW k \in 1..Len(r)
      PROVE  /\ r[k].spent \in 0..MaxWrite /\ (b \/ r[k].age >= r[k].spent)
             /\ NewestState(r, k) => r[k].says = v /\ r[k].spent = s
             /\ r[k].by = "ticker" =>
                   s <= r[k].spent + (IF r[k].topic = "state" THEN 0 ELSE MaxWrite)
  <2>1. CASE k \in 1..Len(q)
    <3>1. r[k] = q[k] /\ q[k].spent \in 0..MaxWrite /\ (b \/ q[k].age >= q[k].spent)
      BY <1>2, <2>1 DEF Prompt
    <3>2. NewestState(r, k) => NewestState(q, k)
      <4>1. \A j \in (k + 1)..Len(q) : j \in (k + 1)..Len(r) /\ r[j] = q[j]
        BY <1>2, <2>1
      <4> QED  BY <3>1, <4>1 DEF NewestState
    <3>3. NewestState(q, k) => q[k].says = v /\ q[k].spent = s
      BY <2>1 DEF Shows
    <3>4. q[k].by = "ticker" =>
             s <= q[k].spent + (IF q[k].topic = "state" THEN 0 ELSE MaxWrite)
      BY <2>1 DEF InTurn
    <3> QED  BY <3>1, <3>2, <3>3, <3>4
  <2>2. CASE k = Len(q) + 1
    <3>1. r[k] = m
      BY <1>2, <2>2
    <3> QED  BY <3>1, Parameters DEF NewestState
  <2> QED  BY <1>2, <2>1, <2>2
<1>4. NoState(r) => NoState(q)
  BY <1>2 DEF NoState
<1> QED  BY <1>1, <1>3, <1>4 DEF Prompt, Shows, InTurn

LEMMA TailTimely ==
  ASSUME NEW q \in Seq(Messages), q # <<>>, NEW b, NEW v, NEW s,
         Prompt(q, b), Shows(q, v, s), InTurn(q, s)
  PROVE  /\ Prompt(Tail(q), b) /\ Shows(Tail(q), v, s) /\ InTurn(Tail(q), s)
         /\ NoState(Tail(q)) => IF Head(q).topic = "state"
                                THEN Head(q).says = v /\ Head(q).spent = s
                                ELSE NoState(q)
         /\ \A k \in 1..Len(q) : q[k].by # Head(q).by =>
               \E j \in 1..Len(Tail(q)) : Tail(q)[j].by = q[k].by
<1>1. PICK r : r = Tail(q)
  OBVIOUS
<1>2. /\ Len(q) \in Nat /\ Len(q) >= 1 /\ Len(r) = Len(q) - 1
      /\ \A k \in 1..(Len(q) - 1) : r[k] = q[k + 1]
      /\ Head(q) = q[1]
  BY <1>1, Shifted
<1>3. ASSUME NEW k \in 1..Len(r)
      PROVE  k + 1 \in 1..Len(q) /\ r[k] = q[k + 1]
             /\ (NewestState(r, k) => NewestState(q, k + 1))
  <2>1. k + 1 \in 1..Len(q) /\ r[k] = q[k + 1]
    BY <1>2
  <2>2. ASSUME NEW j \in ((k + 1) + 1)..Len(q)
        PROVE  j - 1 \in (k + 1)..Len(r) /\ r[j - 1] = q[j]
    <3>1. j - 1 \in (k + 1)..Len(r) /\ j - 1 \in 1..(Len(q) - 1) /\ (j - 1) + 1 = j
      BY <1>2
    <3> QED  BY <1>2, <3>1
  <2> QED  BY <2>1, <2>2 DEF NewestState
<1>4. Prompt(r, b) /\ Shows(r, v, s) /\ InTurn(r, s)
  BY <1>3 DEF Prompt, Shows, InTurn
<1>5. ASSUME NEW k \in 2..Len(q)
      PROVE  k - 1 \in 1..Len(r) /\ r[k - 1] = q[k]
  <2>1. k - 1 \in 1..(Len(q) - 1) /\ (k - 1) + 1 = k
    BY <1>2
  <2> QED  BY <1>2, <2>1
<1>6. ASSUME NoState(r)
      PROVE  IF q[1].topic = "state" THEN q[1].says = v /\ q[1].spent = s ELSE NoState(q)
  <2>1. \A k \in 2..Len(q) : q[k].topic # "state"
    BY <1>5, <1>6 DEF NoState
  <2>2. CASE q[1].topic = "state"
    <3>1. NewestState(q, 1)
      BY <2>1, <2>2 DEF NewestState
    <3> QED  BY <1>2, <2>2, <3>1 DEF Shows
  <2>3. CASE q[1].topic # "state"
    <3>1. \A k \in 1..Len(q) : k = 1 \/ k \in 2..Len(q)
      BY <1>2
    <3> QED  BY <2>1, <2>3, <3>1 DEF NoState
  <2> QED  BY <2>2, <2>3
<1>7. ASSUME NEW k \in 1..Len(q), q[k].by # q[1].by
      PROVE  \E j \in 1..Len(r) : r[j].by = q[k].by
  <2>1. k \in 2..Len(q)
    BY <1>2, <1>7
  <2> QED  BY <1>5, <2>1
<1> QED  BY <1>1, <1>2, <1>4, <1>6, <1>7

LEMMA AgedTimely ==
  ASSUME NEW q \in Seq(Messages), NEW r \in Seq(Messages), Len(r) = Len(q),
         NEW v, NEW s \in Nat, NEW e \in Nat, NEW p \in Nat,
         Shows(q, v, s), InTurn(q, s), p <= s + e,
         ~NoState(q) => p = s + e,
         \A k \in 1..Len(q) : /\ r[k].by = q[k].by /\ r[k].topic = q[k].topic
                              /\ r[k].says = q[k].says /\ r[k].spent = q[k].spent + e
  PROVE  /\ Shows(r, v, p) /\ InTurn(r, p)
         /\ NoState(r) <=> NoState(q)
<1>1. NoState(r) <=> NoState(q)
  BY DEF NoState
<1>2. Len(q) \in Nat
  BY LenProperties
<1>3. ASSUME NEW k \in 1..Len(q), NewestState(r, k)
      PROVE  NewestState(q, k)
  <2>1. \A j \in (k + 1)..Len(q) : j \in 1..Len(q)
    BY <1>2
  <2> QED  BY <1>3, <2>1 DEF NewestState
<1>4. ASSUME NEW k \in 1..Len(q), NewestState(q, k) PROVE p = s + e
  BY <1>4 DEF NewestState, NoState
<1>5. Shows(r, v, p)
  BY <1>3, <1>4 DEF Shows
<1>6. InTurn(r, p)
  <2> SUFFICES ASSUME NEW k \in 1..Len(q), q[k].by = "ticker"
               PROVE  p <= (q[k].spent + e)
                           + (IF q[k].topic = "state" THEN 0 ELSE MaxWrite)
    BY DEF InTurn
  <2>1. q[k].spent \in Int /\ MaxWrite \in Nat
    BY Spent, Parameters
  <2>2. s <= q[k].spent + (IF q[k].topic = "state" THEN 0 ELSE MaxWrite)
    BY DEF InTurn
  <2> QED  BY <2>1, <2>2
<1> QED  BY <1>1, <1>5, <1>6

\* The end of an awaited publish, as far as the floor is concerned.
LEMMA ReturnsTimely ==
  ASSUME Paced, Timely, inflight # <<>>,
         NEW sends \in BOOLEAN, AndThen(Head(inflight).by, sends),
         sends => Head(inflight).topic = "state"
  PROVE  /\ Prompt(inflight', back) /\ Shows(inflight', retained, since)
         /\ InTurn(inflight', since)
         /\ NoState(inflight') =>
               IF Head(inflight).topic = "state"
               THEN Head(inflight).says = retained /\ Head(inflight).spent = since
               ELSE NoState(inflight)
         /\ sends => \E k \in 1..Len(inflight') : inflight'[k].by = Head(inflight).by
         /\ \A k \in 1..Len(inflight) : inflight[k].by # Head(inflight).by =>
               \E j \in 1..Len(inflight') : inflight'[j].by = inflight[k].by
<1> DEFINE q == Tail(inflight)
           b == Head(inflight).by
           m == Message(b, "position")
<1>1. inflight \in Seq(Messages) /\ since \in Nat
  BY Parameters DEF Paced, Timely
<1>2. q \in Seq(Messages) /\ Head(inflight) = inflight[1] /\ inflight[1] \in Messages
      /\ 1 \in 1..Len(inflight)
  BY <1>1, Shifted
<1>3. b \in {"ticker", "listener"}
  BY <1>2 DEF Messages
<1>4. /\ Prompt(q, back) /\ Shows(q, retained, since) /\ InTurn(q, since)
      /\ NoState(q) => IF Head(inflight).topic = "state"
                       THEN Head(inflight).says = retained /\ Head(inflight).spent = since
                       ELSE NoState(inflight)
      /\ \A k \in 1..Len(inflight) : inflight[k].by # b =>
            \E j \in 1..Len(q) : q[j].by = inflight[k].by
  BY <1>1, TailTimely DEF Timely
<1>5. CASE ~sends
  BY <1>4, <1>5 DEF AndThen
<1>6. CASE sends
  <2>1. /\ m \in Messages /\ m.by = b /\ m.topic = "position" /\ m.age = 0
        /\ m.spent = 0
    BY <1>3, MessageFacts DEF Paced, Message
  <2>2. inflight' = Append(q, m)
    BY <1>6 DEF AndThen
  <2> HIDE DEF q, m
  <2>3. since <= MaxWrite \/ ~(b = "ticker")
    <3>1. inflight[1].spent \in 0..MaxWrite
      BY <1>2 DEF Timely, Prompt
    <3>2. b = "ticker" => since <= inflight[1].spent
      BY <1>1, <1>2, <1>6, <3>1 DEF Timely, InTurn
    <3> QED  BY <1>1, <3>1, <3>2, Parameters
  <2>4. /\ Prompt(Append(q, m), back) /\ Shows(Append(q, m), retained, since)
        /\ InTurn(Append(q, m), since)
        /\ NoState(Append(q, m)) => NoState(q)
    BY <1>1, <1>2, <1>4, <2>1, <2>3, AppendPosition
  <2>5. /\ Len(q) \in Nat /\ Len(inflight') = Len(q) + 1
        /\ \A k \in 1..Len(q) : k \in 1..Len(inflight') /\ inflight'[k] = q[k]
        /\ Len(q) + 1 \in 1..Len(inflight') /\ inflight'[Len(q) + 1] = m
    BY <1>2, <2>1, <2>2, Appended
  <2> QED  BY <1>4, <2>1, <2>2, <2>4, <2>5
<1> QED  BY <1>5, <1>6

LEMMA StepTimely ==
  ASSUME Paced, Timely, [Next]_vars PROVE Timely'
<1>0. /\ Interval \in Nat /\ MinInterval \in Nat /\ MaxWrite \in Nat
      /\ Never \in Nat /\ Turn \in Nat
      /\ Turn = 2 * MaxWrite + 1 /\ MaxWrite < Never
      /\ None \notin Values /\ value \in Values
      /\ since \in 0..Never /\ stale \in 0..Never /\ left \in {0, 1}
      /\ inflight \in Seq(Messages) /\ elapsed \in Int
  BY Parameters, Turns DEF Paced, Timely
<1>1. ASSUME NEW task \in {"ticker", "listener"}, Issue(task),
             UNCHANGED <<value, prev, left, steps>>
      PROVE  /\ inflight' = Append(inflight, Message(task, "state"))
             /\ since' = 0 /\ stale' = 0 /\ retained' = value /\ back' = back
             /\ Prompt(inflight', back') /\ Shows(inflight', retained', since')
             /\ InTurn(inflight', since') /\ ~NoState(inflight')
             /\ Len(inflight) \in Nat /\ Len(inflight') = Len(inflight) + 1
             /\ \A k \in 1..Len(inflight) : inflight'[k] = inflight[k]
             /\ inflight'[Len(inflight) + 1].by = task
  <2> DEFINE m == Message(task, "state")
  <2>1. /\ inflight' = Append(inflight, m)
        /\ since' = 0 /\ stale' = 0 /\ retained' = value /\ back' = back
    BY <1>1 DEF Issue
  <2>2. m \in Messages /\ m.topic = "state" /\ m.age = 0 /\ m.spent = 0 /\ m.says = value
        /\ m.by = task
    BY <1>0, MessageFacts DEF Message
  <2> HIDE DEF m
  <2>3. /\ Prompt(inflight', back) /\ Shows(inflight', value, 0)
        /\ InTurn(inflight', 0) /\ ~NoState(inflight')
    BY <1>0, <2>1, <2>2, AppendState DEF Timely
  <2>4. /\ Len(inflight) \in Nat /\ Len(inflight') = Len(inflight) + 1
        /\ \A k \in 1..Len(inflight) : inflight'[k] = inflight[k]
        /\ inflight'[Len(inflight) + 1] = m
    BY <1>0, <2>1, <2>2, Appended
  <2> QED  BY <2>1, <2>2, <2>3, <2>4 DEF m
<1>2. CASE TickerPublish
  <2>1. /\ Issue("ticker") /\ ticker' = "state"
        /\ UNCHANGED <<value, prev, first, elapsed, left, listener, steps>>
    BY <1>2 DEF TickerPublish
  <2>2. Len(inflight) + 1 \in 1..Len(inflight') /\ inflight'[Len(inflight) + 1].by = "ticker"
    BY <1>1, <2>1
  <2> QED  BY <1>0, <1>1, <2>1, <2>2 DEF Timely
<1>3. CASE ListenerPublish
  <2>1. /\ Issue("listener") /\ listener' = "state"
        /\ UNCHANGED <<value, prev, first, elapsed, ticker, left, steps>>
    BY <1>3 DEF ListenerPublish
  <2>2. \A k \in 1..Len(inflight) : k \in 1..Len(inflight')
    BY <1>1, <2>1
  <2>3. ticker # "sleep" => \E k \in 1..Len(inflight') : inflight'[k].by = "ticker"
    BY <1>1, <2>1, <2>2 DEF Timely
  <2> QED  BY <1>0, <1>1, <2>1, <2>3 DEF Timely
<1>4. CASE TickerSkip
  <2>1. /\ ticker = "sleep" /\ left = 0 /\ left' = 1 /\ ~should_publish
        /\ UNCHANGED <<value, prev, first, elapsed, ticker, inflight, since, retained,
                       stale, back, steps>>
    BY <1>4 DEF TickerSkip, history
  <2>2. ~first /\ elapsed <= Interval - 1
        /\ (significant_change => elapsed <= MinInterval - 1)
    BY <1>0, <2>1 DEF should_publish
  <2>3. CASE NoState(inflight)
    <3>1. ~back => since <= elapsed
      BY <1>0, <2>2, <2>3 DEF Timely
    <3>2. ~back /\ stale > 0 => stale <= MinInterval - 1
      <4> SUFFICES ASSUME ~back, stale > 0 PROVE stale <= MinInterval - 1
        OBVIOUS
      <4>1. retained # None /\ Apart(value, retained) /\ prev = retained
        BY <2>2, <2>3 DEF Timely, Overdue
      <4>2. significant_change
        BY <4>1 DEF significant_change
      <4>3. stale <= since
        BY DEF Timely
      <4> QED  BY <1>0, <2>2, <3>1, <4>2, <4>3
    <3>3. ~back => since <= Interval - 1
      BY <1>0, <2>2, <3>1
    <3>4. ~back => stale <= MinInterval - 1 \/ stale <= Turn - 1
      BY <1>0, <3>2
    <3> QED  BY <2>1, <3>3, <3>4 DEF Timely, Overdue
  <2>4. CASE ~NoState(inflight)
    <3>1. PICK k \in 1..Len(inflight) : NewestState(inflight, k)
      BY <1>0, <2>4, SomeNewest DEF Paced
    <3>2. since = inflight[k].spent /\ inflight[k].spent \in 0..MaxWrite
      BY <3>1 DEF Timely, Shows, Prompt
    <3>3. since <= Turn - 1 /\ stale <= Turn - 1
      BY <1>0, <3>2 DEF Timely
    <3> QED  BY <2>1, <3>3 DEF Timely, Overdue
  <2> QED  BY <2>3, <2>4
<1>5. ASSUME inflight # <<>>, UNCHANGED <<value, since, stale, retained, back, steps>>,
             NEW sends \in BOOLEAN, AndThen(Head(inflight).by, sends),
             sends => Head(inflight).topic = "state",
             IF Head(inflight).topic = "state" THEN Record(Head(inflight))
             ELSE UNCHANGED <<first, elapsed, prev>>
      PROVE  /\ Prompt(inflight', back') /\ Shows(inflight', retained', since')
             /\ InTurn(inflight', since')
             /\ NoState(inflight') /\ first' => retained' = None
             /\ NoState(inflight') /\ ~first' =>
                   prev' = retained' /\ (back' \/ elapsed' >= since')
             /\ prev' \in Values \cup {None}
             /\ sends => \E k \in 1..Len(inflight') : inflight'[k].by = Head(inflight).by
             /\ \A k \in 1..Len(inflight) : inflight[k].by # Head(inflight).by =>
                   \E j \in 1..Len(inflight') : inflight'[j].by = inflight[k].by
  <2>1. /\ Prompt(inflight', back) /\ Shows(inflight', retained, since)
        /\ InTurn(inflight', since)
        /\ NoState(inflight') =>
              IF Head(inflight).topic = "state"
              THEN Head(inflight).says = retained /\ Head(inflight).spent = since
              ELSE NoState(inflight)
        /\ sends => \E k \in 1..Len(inflight') : inflight'[k].by = Head(inflight).by
        /\ \A k \in 1..Len(inflight) : inflight[k].by # Head(inflight).by =>
              \E j \in 1..Len(inflight') : inflight'[j].by = inflight[k].by
    BY <1>5, ReturnsTimely
  <2>2. /\ Head(inflight) = inflight[1] /\ inflight[1] \in Messages
        /\ 1 \in 1..Len(inflight)
    BY <1>0, <1>5, Shifted
  <2>3. back \/ Head(inflight).age >= Head(inflight).spent
    BY <2>2 DEF Timely, Prompt
  <2>4. CASE Head(inflight).topic = "state"
    <3>1. first' = FALSE /\ elapsed' = Head(inflight).age /\ prev' = Head(inflight).says
      BY <1>5, <2>4 DEF Record
    <3>2. Head(inflight).says \in Values
      BY <2>2 DEF Messages
    <3> QED  BY <1>5, <2>1, <2>3, <2>4, <3>1, <3>2
  <2>5. CASE Head(inflight).topic # "state"
    BY <1>5, <2>1, <2>5 DEF Timely
  <2> QED  BY <2>4, <2>5
<1>6. inflight # <<>> => Head(inflight) = inflight[1] /\ 1 \in 1..Len(inflight)
  BY <1>0, Shifted
<1>7. CASE TickerRecords
  <2>1. /\ ticker = "state" /\ inflight # <<>>
        /\ Head(inflight).by = "ticker" /\ Head(inflight).topic = "state"
        /\ Record(Head(inflight))
        /\ UNCHANGED <<value, since, stale, retained, back, steps>>
    BY <1>7 DEF TickerRecords, Returned, history
  <2>2. PICK sends \in BOOLEAN :
          /\ AndThen("ticker", sends)
          /\ ticker' = IF sends THEN "position" ELSE "sleep"
          /\ left' = IF sends THEN 0 ELSE 1
    BY <1>7 DEF TickerRecords
  <2>3. since <= MaxWrite
    <3>1. inflight[1].spent \in 0..MaxWrite /\ since <= inflight[1].spent + 0
      BY <1>6, <2>1 DEF Timely, Prompt, InTurn
    <3> QED  BY <1>0, <3>1
  <2>4. since <= Turn - 1 /\ stale <= Turn - 1
    BY <1>0, <2>3 DEF Timely
  <2>5. ticker' # "sleep" => /\ retained' # None
                            /\ \E k \in 1..Len(inflight') : inflight'[k].by = "ticker"
    BY <1>5, <2>1, <2>2 DEF Timely
  <2>6. /\ Prompt(inflight', back') /\ Shows(inflight', retained', since')
        /\ InTurn(inflight', since')
        /\ NoState(inflight') /\ first' => retained' = None
        /\ NoState(inflight') /\ ~first' =>
              prev' = retained' /\ (back' \/ elapsed' >= since')
        /\ prev' \in Values \cup {None}
    BY <1>5, <2>1, <2>2
  <2>7. left' \in {0, 1} /\ (ticker' = "sleep" => left' = 1)
    BY <2>2
  <2>8. Overdue(value)' = Overdue(value)
    BY <2>1 DEF Overdue
  <2> QED  BY <2>1, <2>4, <2>5, <2>6, <2>7, <2>8 DEF Timely
<1>8. CASE TickerDone
  <2>1. /\ ticker = "position" /\ inflight # <<>>
        /\ Head(inflight).by = "ticker" /\ Head(inflight).topic = "position"
        /\ inflight' = Tail(inflight) /\ ticker' = "sleep" /\ left' = 1
        /\ UNCHANGED <<value, prev, first, elapsed, since, stale, retained, back, steps>>
    BY <1>8 DEF TickerDone, Returned, history
  <2>2. since <= Turn - 1 /\ stale <= Turn - 1
    <3>1. inflight[1].spent \in 0..MaxWrite /\ since <= inflight[1].spent + MaxWrite
      BY <1>6, <2>1 DEF Timely, Prompt, InTurn
    <3>2. stale <= since
      BY DEF Timely
    <3>3. PICK n \in 0..MaxWrite : n = inflight[1].spent
      BY <3>1
    <3> QED  BY <1>0, <3>1, <3>2, <3>3
  <2>3. AndThen("ticker", FALSE)
    BY <2>1 DEF AndThen
  <2>4. /\ Prompt(inflight', back') /\ Shows(inflight', retained', since')
        /\ InTurn(inflight', since')
        /\ NoState(inflight') /\ first' => retained' = None
        /\ NoState(inflight') /\ ~first' =>
              prev' = retained' /\ (back' \/ elapsed' >= since')
        /\ prev' \in Values \cup {None}
    BY <1>5, <2>1, <2>3
  <2>5. Overdue(value)' = Overdue(value)
    BY <2>1 DEF Overdue
  <2> QED  BY <2>1, <2>2, <2>4, <2>5 DEF Timely
<1>9. CASE ListenerRecords \/ ListenerDone
  <2>1. /\ inflight # <<>> /\ Head(inflight).by = "listener"
        /\ UNCHANGED <<value, ticker, left, since, stale, retained, back, steps>>
    BY <1>9 DEF ListenerRecords, ListenerDone, Returned, history
  <2>2. PICK sends \in BOOLEAN :
          /\ AndThen("listener", sends)
          /\ sends => Head(inflight).topic = "state"
          /\ IF Head(inflight).topic = "state" THEN Record(Head(inflight))
             ELSE UNCHANGED <<first, elapsed, prev>>
    <3>1. CASE ListenerRecords
      BY <3>1 DEF ListenerRecords, Returned
    <3>2. CASE ListenerDone
      <4>1. AndThen("listener", FALSE) /\ Head(inflight).topic = "position"
            /\ UNCHANGED <<first, elapsed, prev>>
        BY <3>2 DEF ListenerDone, Returned, AndThen
      <4> QED  BY <4>1
    <3> QED  BY <1>9, <3>1, <3>2
  <2>3. /\ Prompt(inflight', back') /\ Shows(inflight', retained', since')
        /\ InTurn(inflight', since')
        /\ NoState(inflight') /\ first' => retained' = None
        /\ NoState(inflight') /\ ~first' =>
              prev' = retained' /\ (back' \/ elapsed' >= since')
        /\ prev' \in Values \cup {None}
        /\ \A k \in 1..Len(inflight) : inflight[k].by # "listener" =>
              \E j \in 1..Len(inflight') : inflight'[j].by = inflight[k].by
    BY <1>5, <2>1, <2>2
  <2>4. ticker' # "sleep" => /\ retained' # None
                            /\ \E k \in 1..Len(inflight') : inflight'[k].by = "ticker"
    <3> SUFFICES ASSUME ticker # "sleep"
                 PROVE  \E k \in 1..Len(inflight') : inflight'[k].by = "ticker"
      BY <2>1 DEF Timely
    <3>1. PICK k \in 1..Len(inflight) : inflight[k].by = "ticker"
      BY DEF Timely
    <3> QED  BY <2>3, <3>1
  <2>5. Overdue(value)' = Overdue(value)
    BY <2>1 DEF Overdue
  <2> QED  BY <2>1, <2>3, <2>4, <2>5 DEF Timely
<1>10. CASE HaOnline
  BY <1>10 DEF HaOnline, history, Timely, Overdue
<1>11. CASE Reconnect
  <2>1. /\ prev' = None /\ first' = TRUE /\ left' = 0 /\ ticker' = "sleep"
        /\ inflight' = <<>> /\ since' = Never /\ retained' = None /\ stale' = 0
        /\ back' = FALSE /\ steps' = steps
    BY <1>11 DEF Reconnect
  <2>2. Len(<<>>) = 0 /\ 1..0 = {}
    OBVIOUS
  <2>3. /\ Prompt(inflight', back') /\ Shows(inflight', retained', since')
        /\ InTurn(inflight', since')
    BY <2>1, <2>2 DEF Prompt, Shows, InTurn
  <2>4. since' \in 0..Never /\ stale' \in 0..Never /\ stale' <= since' /\ ~(stale' > 0)
        /\ stale' <= MinInterval - left'
    BY <1>0, <2>1
  <2>5. prev' \in Values \cup {None} /\ retained' \in Values \cup {None}
        /\ back' \in BOOLEAN /\ steps' \in 0..MaxSteps /\ left' \in {0, 1}
    BY <2>1 DEF Timely
  <2> QED  BY <2>1, <2>3, <2>4, <2>5 DEF Timely
<1>12. CASE Change
  <2>1. /\ stale' = IF Overdue(value)' THEN stale ELSE 0
        /\ UNCHANGED <<prev, first, elapsed, ticker, left, inflight, since, retained, back,
                       steps>>
    BY <1>12 DEF Change, Overdue
  <2> QED  BY <1>0, <2>1 DEF Timely
<1>13. CASE ClockStep
  <2>1. PICK d \in ClockSteps : /\ elapsed' = elapsed + d /\ inflight' = Later(d)
                                /\ back' = (back \/ d < 0)
    BY <1>13 DEF ClockStep
  <2>2. d \in Int /\ back' \in BOOLEAN /\ (~back' => ~back /\ d >= 0)
    <3>1. d \in Int /\ back \in BOOLEAN
      BY <2>1, Parameters DEF Timely
    <3>2. CASE d < 0
      BY <2>1, <3>1, <3>2
    <3>3. CASE ~(d < 0)
      BY <2>1, <3>1, <3>3
    <3> QED  BY <3>2, <3>3
  <2>3. /\ UNCHANGED <<value, prev, first, ticker, left, since, retained, stale>>
        /\ steps' \in 0..MaxSteps
    <3>1. steps < MaxSteps /\ steps' = steps + 1 /\ MaxSteps \in Nat
      BY <1>13, ConstantsAssumption DEF ClockStep, ConstantsAssumption
    <3>2. UNCHANGED <<value, prev, first, ticker, left, since, retained, stale>>
      BY <1>13 DEF ClockStep
    <3> QED  BY <3>1, <3>2 DEF Timely
  <2>4. /\ inflight' \in Seq(Messages) /\ Len(inflight') = Len(inflight)
        /\ \A k \in 1..Len(inflight) :
              /\ inflight'[k].by = inflight[k].by /\ inflight'[k].topic = inflight[k].topic
              /\ inflight'[k].says = inflight[k].says
              /\ inflight'[k].spent = inflight[k].spent
              /\ inflight'[k].age = inflight[k].age + d
    BY <1>0, <2>1, <2>2, LaterFacts
  <2>5. \A k \in 1..Len(inflight) : /\ inflight[k].spent \in Int /\ inflight[k].age \in Int
                                    /\ inflight'[k].spent = inflight[k].spent + 0
    BY <1>0, <2>4, Spent, Member
  <2>6. Prompt(inflight', back')
    BY <2>2, <2>4, <2>5 DEF Timely, Prompt
  <2>7. /\ Shows(inflight', retained, since) /\ InTurn(inflight', since)
        /\ NoState(inflight') <=> NoState(inflight)
    <3>1. since \in Nat /\ since = since + 0 /\ since <= since + 0
      BY <1>0
    <3> HIDE DEF Timely
    <3>2. Shows(inflight, retained, since) /\ InTurn(inflight, since)
      BY DEF Timely
    <3> QED  BY <1>0, <2>4, <2>5, <3>1, <3>2, AgedTimely
  <2>8. ticker # "sleep" => \E k \in 1..Len(inflight') : inflight'[k].by = "ticker"
    BY <2>4 DEF Timely
  <2>9. ~back' /\ elapsed >= since => elapsed' >= since
    BY <1>0, <2>1, <2>2
  <2>10. Overdue(value)' = Overdue(value)
    BY <2>3 DEF Overdue
  <2> QED  BY <1>0, <2>2, <2>3, <2>6, <2>7, <2>8, <2>9, <2>10 DEF Timely
<1>14. CASE Tick
  <2>1. /\ ticker = "sleep" => left = 1
        /\ \A k \in DOMAIN inflight : inflight[k].spent < MaxWrite
        /\ left' = 0 /\ elapsed' = IF first THEN 0 ELSE elapsed + 1
        /\ since' = Capped(since + 1)
        /\ stale' = IF Overdue(value) THEN Capped(stale + 1) ELSE 0
        /\ UNCHANGED <<value, prev, first, ticker, retained, back, steps>>
    BY <1>14 DEF Tick
  <2>2. /\ since' \in 0..Never /\ since' <= since + 1
        /\ (since < MaxWrite => since' = since + 1)
    BY <1>0, <2>1 DEF Capped
  <2>3. /\ stale' \in 0..Never /\ stale' <= stale + 1 /\ stale' <= since'
        /\ (stale' > 0 => Overdue(value))
    <3>1. stale <= since
      BY DEF Timely
    <3> QED  BY <1>0, <2>1, <3>1 DEF Capped
  <2>4. /\ inflight' \in Seq(Messages) /\ Len(inflight') = Len(inflight)
        /\ \A k \in 1..Len(inflight) :
              /\ inflight'[k].by = inflight[k].by /\ inflight'[k].topic = inflight[k].topic
              /\ inflight'[k].says = inflight[k].says
              /\ inflight'[k].spent = inflight[k].spent + 1
              /\ inflight'[k].age = inflight[k].age + 1
    BY <1>0, <1>14, TickFacts
  <2>5. \A k \in 1..Len(inflight) : /\ inflight[k].spent \in 0..MaxWrite
                                    /\ inflight[k].age \in Int
                                    /\ inflight[k].spent < MaxWrite
    BY <1>0, <2>1, Member, LenProperties DEF Timely, Prompt
  <2>6. Prompt(inflight', back')
    <3>1. Prompt(inflight, back) /\ back' = back
      BY <2>1 DEF Timely
    <3>2. ASSUME NEW k \in 1..Len(inflight)
          PROVE  /\ inflight'[k].spent \in 0..MaxWrite
                 /\ inflight[k].age >= inflight[k].spent =>
                       inflight'[k].age >= inflight'[k].spent
      <4>1. /\ inflight'[k].spent = inflight[k].spent + 1
            /\ inflight'[k].age = inflight[k].age + 1
            /\ inflight[k].spent \in 0..MaxWrite /\ inflight[k].spent < MaxWrite
            /\ inflight[k].age \in Int
        BY <2>4, <2>5
      <4> QED  BY <1>0, <4>1
    <3> QED  BY <2>4, <3>1, <3>2 DEF Prompt
  <2>7. /\ Shows(inflight', retained, since') /\ InTurn(inflight', since')
        /\ NoState(inflight') <=> NoState(inflight)
    <3>1. Shows(inflight, retained, since) /\ InTurn(inflight, since)
      BY DEF Timely
    <3>2. ~NoState(inflight) => since' = since + 1
      <4> SUFFICES ASSUME ~NoState(inflight) PROVE since < MaxWrite
        BY <2>2
      <4>1. PICK k \in 1..Len(inflight) : NewestState(inflight, k)
        BY <1>0, SomeNewest DEF Paced
      <4> QED  BY <2>5, <3>1, <4>1 DEF Shows
    <3>3. since \in Nat /\ since' \in Nat
      BY <1>0, <2>2
    <3> QED  BY <2>2, <2>4, <3>1, <3>2, <3>3, <1>0, AgedTimely
  <2>8. ticker # "sleep" => \E k \in 1..Len(inflight') : inflight'[k].by = "ticker"
    BY <2>4 DEF Timely
  <2>9. ~first /\ elapsed >= since => elapsed' >= since'
    BY <1>0, <2>1, <2>2
  <2>10. Overdue(value)' = Overdue(value)
    BY <2>1 DEF Overdue
  <2>11. ticker = "sleep" =>
            /\ since <= Interval - left => since' <= Interval - left'
            /\ since <= Turn - left => since' <= Turn - left'
            /\ stale <= MinInterval - left => stale' <= MinInterval - left'
            /\ stale <= Turn - left => stale' <= Turn - left'
    BY <1>0, <2>1, <2>2, <2>3
  <2> QED
    BY <1>0, <2>1, <2>2, <2>3, <2>6, <2>7, <2>8, <2>9, <2>10, <2>11 DEF Timely
<1>15. CASE UNCHANGED vars
  BY <1>15 DEF vars, Timely, Overdue
<1> QED
  BY <1>2, <1>3, <1>4, <1>7, <1>8, <1>9, <1>10, <1>11, <1>12, <1>13, <1>14, <1>15 DEF Next

LEMMA InitTimely == Init => Timely
<1> SUFFICES ASSUME Init PROVE Timely
  OBVIOUS
<1>1. /\ inflight = <<>> /\ ticker = "sleep" /\ left = 0 /\ first = TRUE
      /\ prev = None /\ retained = None /\ back = FALSE
      /\ since = Never /\ stale = 0 /\ steps = 0
  BY DEF Init
<1>2. Len(<<>>) = 0 /\ 1..0 = {}
  OBVIOUS
<1>3. Prompt(inflight, back) /\ Shows(inflight, retained, since) /\ InTurn(inflight, since)
  BY <1>1, <1>2 DEF Prompt, Shows, InTurn
<1>4. MaxSteps \in Nat /\ MinInterval \in Nat /\ Never \in Nat
  BY Parameters, ConstantsAssumption DEF ConstantsAssumption
<1>5. /\ since \in 0..Never /\ stale \in 0..Never /\ left \in {0, 1} /\ steps \in 0..MaxSteps
      /\ stale <= since /\ ~(stale > 0) /\ stale <= MinInterval - left
  BY <1>1, <1>4
<1> QED  BY <1>1, <1>3, <1>5 DEF Timely

LEMMA AlwaysTimely == Spec => [](Paced /\ Timely)
<1>1. Init => Paced /\ Timely
  BY InitPaced, InitTimely
<1>2. Paced /\ Timely /\ [Next]_vars => Paced' /\ Timely'
  BY StepPaced, StepTimely
<1> QED  BY <1>1, <1>2, PTL DEF Spec

\* While the ticker awaits its messages the last one is not older than its turn.
LEMMA WhileAwaiting == ASSUME Paced, Timely, ticker # "sleep" PROVE since <= Turn
<1>1. PICK k \in 1..Len(inflight) : inflight[k].by = "ticker"
  BY DEF Timely
<1>2. /\ inflight[k].spent \in 0..MaxWrite
      /\ since <= inflight[k].spent + (IF inflight[k].topic = "state" THEN 0 ELSE MaxWrite)
  BY <1>1 DEF Timely, Prompt, InTurn
<1>3. PICK n \in 0..MaxWrite : n = inflight[k].spent
  BY <1>2
<1>4. since \in Int /\ since <= n + MaxWrite
  BY <1>2, <1>3, Parameters DEF Timely
<1> QED  BY <1>4, Turns, Parameters

\* Never less often than the floor: for any intervals, any delays of the broker and
\* any restarts of Home Assistant, should_publish evaluated once a second leaves no
\* more than mqtt_interval_s between two messages, or one turn of the ticker if that
\* takes longer, as long as the clock is not stepped back.
THEOREM FloorAlwaysKept == Spec => []FloorKept
<1>1. Paced /\ Timely => FloorKept
  <2> SUFFICES ASSUME Paced, Timely, ~back, retained # None
               PROVE  since <= Interval \/ since <= Turn
    BY DEF FloorKept
  <2>1. CASE ticker = "sleep"
    <3>1. since <= Interval - left \/ since <= Turn - left
      BY <2>1 DEF Timely
    <3> QED  BY <3>1, Turns, Parameters DEF Timely
  <2> QED  BY <2>1, WhileAwaiting
<1> QED  BY <1>1, AlwaysTimely, PTL

\* No change stays hidden: a value that has left the deadband around what the broker
\* shows is published within the minimum interval or one turn of the ticker, and the
\* state the deadband is measured from is the one the broker shows, however the
\* publishes of the ticker and of the listener overlap.
THEOREM ChangesAlwaysShow == Spec => []ChangesShow
<1>1. Paced /\ Timely => ChangePrompt
  <2> SUFFICES ASSUME Paced, Timely, ~back PROVE stale <= MinInterval \/ stale <= Turn
    BY DEF ChangePrompt
  <2>1. CASE ticker = "sleep"
    <3>1. stale <= MinInterval - left \/ stale <= Turn - left
      BY <2>1 DEF Timely
    <3> QED  BY <3>1, Turns, Parameters DEF Timely
  <2>2. CASE ticker # "sleep"
    BY <2>2, WhileAwaiting, Turns, Parameters DEF Timely
  <2> QED  BY <2>1, <2>2
<1>2. Paced /\ Timely => TypeOK
  <2> SUFFICES ASSUME Paced, Timely PROVE TypeOK
    OBVIOUS
  <2>1. inflight \in Seq(Messages) /\ DOMAIN inflight = 1..Len(inflight)
    BY LenProperties DEF Paced
  <2>2. ASSUME NEW k \in DOMAIN inflight
        PROVE  inflight[k] \in [by : {"ticker", "listener"}, topic : {"state", "position"},
                                says : Values, age : Int, spent : Nat]
    <3>1. inflight[k] \in Messages
      BY <2>1, Member
    <3>2. inflight[k].spent \in Nat
      BY <2>1, Parameters DEF Timely, Prompt
    <3> QED  BY <3>1, <3>2 DEF Messages
  <2>3. PICK n \in 0..2 : n = Len(inflight)
    <3>1. Single(inflight, ticker, listener)
      BY DEF Paced
    <3> QED  BY <2>1, <3>1, AtMostTwo
  <2> QED  BY <2>2, <2>3 DEF TypeOK, Paced, Timely
<1>3. Timely => (inflight = <<>> /\ ~first => prev = retained)
  <2> SUFFICES ASSUME Timely, inflight = <<>>, ~first PROVE prev = retained
    OBVIOUS
  <2>1. NoState(inflight)
    BY DEF NoState
  <2> QED  BY <2>1 DEF Timely
<1>4. Paced /\ Timely => ChangesShow
  BY <1>1, <1>2, <1>3 DEF ChangesShow, PrevMirrorsBroker
<1> QED  BY <1>4, AlwaysTimely, PTL
=============================================================================
