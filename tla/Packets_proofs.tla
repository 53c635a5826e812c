--------------------------- MODULE Packets_proofs ---------------------------
(***************************************************************************)
(* Proofs about Packets: for any dates, any lengths of strings and any     *)
(* limit, whatever the user clicks meanwhile.                              *)
(***************************************************************************)
EXTENDS Packets, FiniteSetTheorems, SequenceTheorems, TLAPS

-----------------------------------------------------------------------------
(* The strengthened invariant.                                             *)

\* The settings whose test is still to come.
Ahead == [always_day |-> {"always_day", "no_fog", "no_rain", "no_clouds", "no_wind"},
          no_fog     |-> {"no_fog", "no_rain", "no_clouds", "no_wind"},
          no_rain    |-> {"no_rain", "no_clouds", "no_wind"},
          no_clouds  |-> {"no_clouds", "no_wind"},
          no_wind    |-> {"no_wind"},
          copy       |-> {},
          forward    |-> {},
          crashed    |-> {}]

\* An environment is in the hands of the hook from its packet's coming to its
\* forwarding, and nothing else is.
Phases == /\ pc = "receive" <=> packet = None
          /\ env = None <=> data = None
          /\ env # None => packet \in [type : {"Entities"}, date : Dates]
          /\ env = None => packet \in {None} \cup Messages
                           /\ pc \in {"receive", "forward"}

\* What was tested is as the setting was then, and the rest as it came.
Rewritten ==
  env # None =>
    /\ \A b \in Boxes : weather[b] \in seen[b]
    /\ IF "always_day" \in Ahead[pc] THEN env.date = packet.date
       ELSE \E on \in seen["always_day"] : env.date = IF on THEN Day ELSE packet.date
    /\ \A a \in Amounts :
         IF SettingOf[a] \in Ahead[pc] THEN env.amounts[a] = "sent"
         ELSE \E on \in seen[SettingOf[a]] : env.amounts[a] = IF on THEN "zero" ELSE "sent"

\* The packet's buffer holds what came until the copy is made.
Buffered ==
  env # None =>
    /\ data.env = IF pc \in {"forward", "crashed"} THEN env ELSE Sent(packet.date)
    /\ data.size = PacketSize(Sent(packet.date))
    /\ data.used = PacketSize(data.env)

PacketsInv == PacketsTypeOK /\ Phases /\ Rewritten /\ Buffered

-----------------------------------------------------------------------------
(* Sizes.                                                                  *)

LEMMA AmountsFinite == Cardinality(Amounts) \in Nat
<1>1. IsFiniteSet({}) BY FS_EmptySet
<1>2. IsFiniteSet({"clouds"}) BY FS_Singleton
<1>3. IsFiniteSet({"clouds"} \cup {"fog"}) BY <1>2, FS_AddElement
<1>4. IsFiniteSet({"clouds"} \cup {"fog"} \cup {"wind"}) BY <1>3, FS_AddElement
<1>5. IsFiniteSet({"clouds"} \cup {"fog"} \cup {"wind"} \cup {"rain"})
  BY <1>4, FS_AddElement
<1>6. Amounts = {"clouds"} \cup {"fog"} \cup {"wind"} \cup {"rain"} BY DEF Amounts
<1> QED BY <1>5, <1>6, FS_CardinalityType

LEMMA BitsOfDates ==
  ASSUME NEW date \in Dates \cup {Day}
  PROVE  date[1] \in 0..64
BY DatesSized DEF Day

\* A varint takes one byte to ten: nine of 57 bits to 63, and ten of 64.
LEMMA DateSize ==
  ASSUME NEW bits \in 0..64
  PROVE  /\ VarintSize(bits) \in 1..10
         /\ bits < 57 => VarintSize(bits) < 9
         /\ bits \in 57..63 => VarintSize(bits) = 9
         /\ bits = 64 => VarintSize(bits) = 10
<1>1. bits = 0 => VarintSize(bits) = 1 BY DEF VarintSize
<1>2. ASSUME bits # 0 PROVE VarintSize(bits) = (bits + 6) \div 7 BY <1>2 DEF VarintSize
<1>3. bits \in 1..56 => (bits + 6) \div 7 \in 1..8 OBVIOUS
<1>4. bits \in 57..63 => (bits + 6) \div 7 = 9 OBVIOUS
<1>5. bits = 64 => (bits + 6) \div 7 = 10 OBVIOUS
<1> QED BY <1>1, <1>2, <1>3, <1>4, <1>5

LEMMA Sizes ==
  ASSUME NEW e \in Environments
  PROVE  /\ PacketSize(e) \in Nat
         /\ \A f \in Environments :
              PacketSize(e) - PacketSize(f)
                = VarintSize(e.date[1]) - VarintSize(f.date[1])
<1>1. \A f \in Environments : VarintSize(f.date[1]) \in Nat
  BY BitsOfDates, DateSize DEF Environments
<1> DEFINE rest == Cardinality(Amounts) * (1 + 4)
<1>2. rest \in Nat BY AmountsFinite
<1>3. \A f \in Environments : PacketSize(f) = 5 + 1 + 1 + (1 + VarintSize(f.date[1]) + rest) + 3
  BY DEF PacketSize, ByteSize
<1> HIDE DEF rest
<1> QED BY <1>1, <1>2, <1>3

-----------------------------------------------------------------------------
(* The actions.                                                            *)

LEMMA SentTyped ==
  ASSUME NEW date \in Dates
  PROVE  Sent(date) \in Environments
BY DEF Sent, Environments

LEMMA NeutralTyped ==
  ASSUME env \in Environments, NEW box \in DOMAIN Following
  PROVE  Neutral(box) \in Environments
<1>1. Neutral(box) \in {[env EXCEPT !.date = Day], [env EXCEPT !.amounts.fog = "zero"],
                        [env EXCEPT !.amounts.rain = "zero"],
                        [env EXCEPT !.amounts.clouds = "zero"],
                        [env EXCEPT !.amounts.wind = "zero"]}
  BY DEF Neutral, Following
<1> QED BY <1>1 DEF Environments, Amounts

LEMMA InitHolds == PacketsInit => PacketsInv
<1> SUFFICES ASSUME PacketsInit PROVE PacketsInv OBVIOUS
<1> QED BY DEF PacketsInit, PacketsInv, PacketsTypeOK, Phases, Rewritten, Buffered, Boxes

LEMMA ReceivesMessageKeeps == PacketsInv /\ ReceivesMessage => PacketsInv'
<1> SUFFICES ASSUME PacketsInv, ReceivesMessage PROVE PacketsInv' OBVIOUS
<1>1. env = None /\ data = None
  BY NoneApart DEF PacketsInv, Phases, ReceivesMessage
<1> QED BY <1>1, NoneApart
        DEF PacketsInv, PacketsTypeOK, Phases, Rewritten, Buffered, ReceivesMessage

LEMMA ReceivesEnvironmentKeeps == PacketsInv /\ ReceivesEnvironment => PacketsInv'
<1> SUFFICES ASSUME PacketsInv, ReceivesEnvironment PROVE PacketsInv' OBVIOUS
<1>1. PICK date \in Dates :
        /\ packet' = [type |-> "Entities", date |-> date] /\ env' = Sent(date)
        /\ data' = [env |-> env', size |-> PacketSize(env'), used |-> PacketSize(env')]
  BY DEF ReceivesEnvironment
<1>2. env' \in Environments /\ PacketSize(env') \in Nat
  BY <1>1, SentTyped, Sizes
<1>3. env' # None /\ packet' # None /\ data' # None
  BY <1>1, <1>2, NoneApart
<1>4. pc' = "always_day" /\ weather' = weather /\ seen' = [b \in Boxes |-> {weather[b]}]
  BY DEF ReceivesEnvironment
<1>5. PacketsTypeOK'
  BY <1>1, <1>2, <1>4 DEF PacketsInv, PacketsTypeOK, Following, Boxes
<1>6. Phases' /\ Buffered'
  BY <1>1, <1>3, <1>4 DEF Phases, Buffered
<1>7. Rewritten'
  BY <1>1, <1>4 DEF Rewritten, Sent, Ahead, SettingOf, Amounts, Boxes
<1> QED BY <1>5, <1>6, <1>7 DEF PacketsInv

LEMMA IfSettingKeeps == PacketsInv /\ if_setting => PacketsInv'
<1> SUFFICES ASSUME PacketsInv, if_setting PROVE PacketsInv' OBVIOUS
<1>1. /\ pc \in {"always_day", "no_fog", "no_rain", "no_clouds", "no_wind"}
      /\ pc' = Following[pc] /\ pc' \in {"no_fog", "no_rain", "no_clouds", "no_wind", "copy"}
      /\ env' = IF weather[pc] THEN Neutral(pc) ELSE env
      /\ UNCHANGED <<weather, packet, data, seen>>
  BY DEF if_setting, Following
<1>2. env \in Environments /\ env # None
  BY <1>1 DEF PacketsInv, PacketsTypeOK, Phases
<1>3. env' \in Environments /\ env' # None
  BY <1>1, <1>2, NeutralTyped, NoneApart DEF Following
<1>4. PacketsTypeOK'
  BY <1>1, <1>3 DEF PacketsInv, PacketsTypeOK, Following
<1>5. Phases'
  BY <1>1, <1>2, <1>3 DEF PacketsInv, Phases
<1>6. Buffered'
  BY <1>1, <1>2 DEF PacketsInv, Buffered
<1>7. Rewritten'
  <2>1. weather[pc] \in BOOLEAN /\ weather[pc] \in seen[pc] /\ pc \in Boxes
    BY <1>1, <1>2 DEF PacketsInv, PacketsTypeOK, Rewritten, Boxes
  <2>3. CASE pc = "always_day"
    <3>1. env' = IF weather[pc] THEN [env EXCEPT !.date = Day] ELSE env
      BY <1>1, <2>3 DEF Neutral
    <3>2. env'.amounts = env.amounts
      BY <1>2, <3>1 DEF Environments
    <3>3. env'.date = IF weather[pc] THEN Day ELSE packet.date
      BY <1>1, <1>2, <2>3, <3>1 DEF PacketsInv, Rewritten, Ahead, Environments
    <3>4. \E on \in seen'["always_day"] : env'.date = IF on THEN Day ELSE packet'.date
      BY <1>1, <2>1, <2>3, <3>3
    <3>5. pc' = "no_fog" /\ "always_day" \notin Ahead[pc']
          /\ \A a \in Amounts : SettingOf[a] \in Ahead[pc] /\ SettingOf[a] \in Ahead[pc']
      BY <1>1, <2>3 DEF Ahead, Following, SettingOf, Amounts
    <3> QED BY <1>1, <1>2, <3>2, <3>4, <3>5 DEF PacketsInv, Rewritten
  <2>4. CASE pc # "always_day"
    <3>1. PICK a \in Amounts : pc = SettingOf[a]
      BY <1>1, <2>4 DEF Amounts, SettingOf
    <3>2. env' = IF weather[pc] THEN [env EXCEPT !.amounts[a] = "zero"] ELSE env
      BY <1>1, <3>1 DEF Neutral, Amounts, SettingOf
    <3>3. env'.date = env.date
      BY <1>2, <3>2 DEF Environments
    <3>4. \A b \in Amounts \ {a} : env'.amounts[b] = env.amounts[b]
      BY <1>2, <3>2 DEF Environments
    <3>5. env.amounts[a] = "sent"
      BY <1>1, <1>2, <3>1 DEF PacketsInv, Rewritten, Ahead
    <3>6. \E on \in seen'[SettingOf[a]] : env'.amounts[a] = IF on THEN "zero" ELSE "sent"
      BY <1>1, <1>2, <2>1, <3>1, <3>2, <3>5 DEF Environments
    <3>7. "always_day" \notin Ahead[pc] /\ "always_day" \notin Ahead[pc']
      BY <1>1, <2>4 DEF Ahead
    <3>8. /\ SettingOf[a] \notin Ahead[pc']
          /\ \A b \in Amounts \ {a} : SettingOf[b] \in Ahead[pc] <=> SettingOf[b] \in Ahead[pc']
      BY <1>1, <2>4, <3>1 DEF Ahead, SettingOf, Amounts, Following
    <3> QED BY <1>1, <1>2, <2>1, <3>1, <3>3, <3>4, <3>6, <3>7, <3>8
            DEF PacketsInv, Rewritten
  <2> QED BY <2>3, <2>4
<1> QED BY <1>4, <1>5, <1>6, <1>7 DEF PacketsInv

LEMMA CopiesKeeps == PacketsInv /\ Copies => PacketsInv'
<1> SUFFICES ASSUME PacketsInv, Copies PROVE PacketsInv' OBVIOUS
<1>1. env \in Environments /\ env # None /\ data # None
  BY DEF PacketsInv, PacketsTypeOK, Phases, Copies
<1>2. data \in [env : Environments, size : Nat, used : Nat] /\ PacketSize(env) \in Nat
  BY <1>1, Sizes DEF PacketsInv, PacketsTypeOK
<1>3. data' \in [env : Environments, size : Nat, used : Nat]
      /\ data'.env = env /\ data'.size = data.size /\ data'.used = PacketSize(env)
  BY <1>1, <1>2 DEF Copies
<1>4. data' # None BY <1>3, NoneApart
<1>5. pc' \in {"forward", "crashed"} /\ UNCHANGED <<weather, packet, env, seen>>
  BY DEF Copies
<1>6. PacketsTypeOK' BY <1>3, <1>5 DEF PacketsInv, PacketsTypeOK
<1>7. Phases' BY <1>1, <1>4, <1>5 DEF PacketsInv, Phases, Copies
<1>8. Rewritten' BY <1>5 DEF PacketsInv, Rewritten, Ahead, Copies
<1>9. Buffered' BY <1>1, <1>3, <1>5 DEF PacketsInv, Buffered
<1> QED BY <1>6, <1>7, <1>8, <1>9 DEF PacketsInv

LEMMA ForwardsKeeps == PacketsInv /\ Forwards => PacketsInv'
BY NoneApart DEF PacketsInv, PacketsTypeOK, Phases, Rewritten, Buffered, Forwards

LEMMA CheckboxKeeps ==
  ASSUME PacketsInv, NEW box \in Boxes, Checkbox(box)
  PROVE  PacketsInv'
<1>1. /\ weather' = [weather EXCEPT ![box] = ~weather[box]]
      /\ seen' = [seen EXCEPT ![box] = IF env = None THEN seen[box]
                                      ELSE seen[box] \cup {~weather[box]}]
      /\ UNCHANGED <<packet, env, data, pc>>
  BY DEF Checkbox
<1>2. PacketsTypeOK' BY <1>1 DEF PacketsInv, PacketsTypeOK
<1>3. Phases' /\ Buffered' BY <1>1 DEF PacketsInv, Phases, Buffered
<1>4. /\ \A b \in Boxes : seen[b] \subseteq seen'[b]
      /\ env # None => \A b \in Boxes : weather'[b] \in seen'[b]
  BY <1>1 DEF PacketsInv, PacketsTypeOK, Rewritten
<1>5. "always_day" \in Boxes /\ \A a \in Amounts : SettingOf[a] \in Boxes
  BY DEF Boxes, Amounts, SettingOf
<1>6. Rewritten' BY <1>1, <1>4, <1>5 DEF PacketsInv, Rewritten
<1> QED BY <1>2, <1>3, <1>6 DEF PacketsInv

\* The strengthened invariant is inductive.
THEOREM PacketsInvariance == PacketsSpec => []PacketsInv
<1>1. PacketsInv /\ UNCHANGED packetVars => PacketsInv'
  BY DEF PacketsInv, PacketsTypeOK, Phases, Rewritten, Buffered, packetVars
<1>2. PacketsInv /\ [PacketsNext]_packetVars => PacketsInv'
  BY <1>1, ReceivesMessageKeeps, ReceivesEnvironmentKeeps, IfSettingKeeps, CopiesKeeps,
     ForwardsKeeps, CheckboxKeeps DEF PacketsNext, PacketsEnded
<1> QED BY <1>2, InitHolds, PTL DEF PacketsSpec

-----------------------------------------------------------------------------
(* The properties.                                                         *)

\* An environment on its way always has all the fields the game client requires,
\* whatever settings are on (main.cpp:69-88).
THEOREM TypeCorrect == PacketsSpec => []PacketsTypeOK
<1>1. PacketsInv => PacketsTypeOK BY DEF PacketsInv
<1> QED BY <1>1, PacketsInvariance, PTL

\* Each field of an environment sent on is what its setting made of it at some
\* moment of the pass, whatever is clicked meanwhile (main.cpp:79-88).
THEOREM WeatherIsHonoured == PacketsSpec => []WeatherHonoured
<1>1. PacketsInv => WeatherHonoured
  <2> SUFFICES ASSUME PacketsInv, pc = "forward", data # None
               PROVE  /\ \E on \in seen.always_day :
                           data.env.date = IF on THEN Day ELSE packet.date
                      /\ \A a \in Amounts : \E on \in seen[SettingOf[a]] :
                           data.env.amounts[a] = IF on THEN "zero" ELSE "sent"
    BY DEF WeatherHonoured
  <2>1. env # None /\ data.env = env /\ Ahead[pc] = {}
    BY DEF PacketsInv, Phases, Buffered, Ahead
  <2> QED BY <2>1 DEF PacketsInv, Rewritten
<1> QED BY <1>1, PacketsInvariance, PTL

\* For any date whatever, the rewritten entity goes past the end of the packet
\* exactly if the day replaced a date of less than 57 bits, by eight bytes at
\* most, and falls short of it, by one, exactly if it replaced one of 64
\* (main.cpp:79-83, :88).
THEOREM OverrunsAreExplained == PacketsSpec => []OverrunsExplained
<1>1. PacketsInv => OverrunsExplained
  <2> SUFFICES ASSUME PacketsInv, data # None
               PROVE  LET over == data.used - data.size
                      IN  /\ over > 0 <=> packet.date[1] < 57 /\ data.env.date = Day
                          /\ over < 0 <=> packet.date[1] = 64 /\ data.env.date = Day
                          /\ over \in -1..8
    BY DEF OverrunsExplained
  <2>1. /\ env # None /\ packet.date \in Dates /\ data.env \in Environments
        /\ data.size = PacketSize(Sent(packet.date)) /\ data.used = PacketSize(data.env)
        /\ data.env.date \in {packet.date, Day}
    <3>1. env # None BY DEF PacketsInv, Phases
    <3>2. data.env = env \/ data.env = Sent(packet.date)
      BY <3>1 DEF PacketsInv, Buffered
    <3>3. data.env.date \in {packet.date, Day}
      BY <3>1, <3>2 DEF PacketsInv, Rewritten, Sent
    <3> QED BY <3>1, <3>3 DEF PacketsInv, PacketsTypeOK, Phases, Buffered
  <2>2. Sent(packet.date) \in Environments /\ Sent(packet.date).date = packet.date
    BY <2>1, SentTyped DEF Sent
  <2>3. PacketSize(data.env) - PacketSize(Sent(packet.date))
          = VarintSize(data.env.date[1]) - VarintSize(packet.date[1])
    BY <2>1, <2>2, Sizes
  <2>4. data.used - data.size
          = VarintSize(data.env.date[1]) - VarintSize(packet.date[1])
    BY <2>1, <2>3
  <2>5. /\ packet.date[1] \in 0..64 /\ VarintSize(packet.date[1]) \in 1..10
        /\ packet.date[1] < 57 => VarintSize(packet.date[1]) < 9
        /\ packet.date[1] \in 57..63 => VarintSize(packet.date[1]) = 9
        /\ packet.date[1] = 64 => VarintSize(packet.date[1]) = 10
    BY <2>1, BitsOfDates, DateSize
  <2>6. Day[1] = 63 BY DEF Day
  <2>7. VarintSize(Day[1]) = 9 BY <2>6, DateSize
  <2>8. CASE data.env.date = Day BY <2>4, <2>5, <2>7, <2>8
  <2>9. CASE data.env.date # Day
    <3>1. data.env.date = packet.date BY <2>1, <2>9
    <3> QED BY <2>4, <2>5, <2>9, <3>1
  <2> QED BY <2>8, <2>9
<1> QED BY <1>1, PacketsInvariance, PTL

-----------------------------------------------------------------------------
(* Reading back what was written.                                          *)

Names == {"type", "entity_id", "func_name", "position", "rotation", "command"}
Field == Names \cup Nat
Byte  == Field \X Nat

LEMMA BytesSeq ==
  ASSUME NEW field \in Field, NEW n \in Nat, NEW s, s = [k \in 1..n |-> <<field, k>>]
  PROVE  s \in Seq(Byte) /\ Len(s) = n
<1>1. ASSUME NEW k \in 1..n PROVE <<field, k>> \in Byte
  <2>1. k \in Nat OBVIOUS
  <2> QED BY <2>1 DEF Byte
<1>2. s \in [1..n -> Byte] BY <1>1
<1>3. s \in Seq(Byte) BY <1>2, SeqDef
<1>4. DOMAIN s = 1..n BY <1>2
<1>5. DOMAIN s = 1..Len(s) /\ Len(s) \in Nat BY <1>3, LenProperties
<1>6. Len(s) = n BY <1>4, <1>5
<1> QED BY <1>3, <1>6

\* Reading as many bytes as a field has, where it begins, gives the field.
LEMMA ReadsField ==
  ASSUME NEW a \in Seq(Byte), NEW b \in Seq(Byte), NEW c \in Seq(Byte)
  PROVE  Read(a \o b \o c, Len(a), Len(b)) = b
<1> DEFINE s == a \o b \o c
<1>1. a \o b \in Seq(Byte) /\ Len(a \o b) = Len(a) + Len(b)
  BY ConcatProperties
<1>2. /\ s \in Seq(Byte) /\ Len(s) = Len(a) + Len(b) + Len(c)
      /\ \A i \in 1..Len(b) : s[Len(a) + i] = b[i]
  <2>1. s \in Seq(Byte) /\ Len(s) = Len(a) + Len(b) + Len(c)
    BY <1>1, ConcatProperties
  <2>2. ASSUME NEW i \in 1..Len(b) PROVE s[Len(a) + i] = b[i]
    <3>1. Len(a) \in Nat /\ Len(b) \in Nat /\ Len(c) \in Nat BY LenProperties
    <3>2. s[Len(a) + i] = (a \o b)[Len(a) + i]
      BY <1>1, <3>1, ConcatProperties
    <3>3. (a \o b)[Len(a) + i] = b[i]
      BY <3>1, ConcatProperties
    <3> QED BY <3>2, <3>3
  <2> QED BY <2>1, <2>2
<1> HIDE DEF s
<1>3. Len(a) \in Nat /\ Len(b) \in Nat /\ Len(c) \in Nat BY LenProperties
<1> DEFINE r == SubSeq(s, Len(a) + 1, Len(a) + Len(b))
<1>4. \A i \in Len(a) + 1..Len(a) + Len(b) : s[i] \in Byte
  BY <1>2, <1>3, ElementOfSeq
<1>5. r \in Seq(Byte) /\ Len(r) = Len(b) /\ \A i \in 1..Len(b) : r[i] = s[Len(a) + i]
  BY <1>3, <1>4, SubSeqProperties
<1> HIDE DEF r
<1>6. r = b BY <1>2, <1>5, SeqEqual
<1> QED BY <1>6 DEF Read, r, s

LEMMA BytesOf ==
  ASSUME NEW field \in Names, NEW n \in Nat
  PROVE  Bytes(field, n) \in Seq(Byte) /\ Len(Bytes(field, n)) = n
<1> DEFINE s == [k \in 1..n |-> <<field, k>>]
<1> HIDE DEF s
<1>1. field \in Field BY DEF Field
<1>2. s = [k \in 1..n |-> <<field, k>>] BY DEF s
<1>3. s \in Seq(Byte) /\ Len(s) = n BY <1>1, <1>2, BytesSeq
<1> QED BY <1>3 DEF Bytes, s

LEMMA Cat ==
  ASSUME NEW a \in Seq(Byte), NEW b \in Seq(Byte)
  PROVE  /\ a \o b \in Seq(Byte) /\ Len(a \o b) = Len(a) + Len(b)
         /\ \A i \in 1..Len(a) : (a \o b)[i] = a[i]
         /\ a \o <<>> = a /\ <<>> \in Seq(Byte)
<1>1. a \o b \in Seq(Byte) /\ Len(a \o b) = Len(a) + Len(b)
  BY ConcatProperties
<1>2. Len(a) \in Nat /\ Len(b) \in Nat BY LenProperties
<1>3. \A i \in 1..Len(a) : (a \o b)[i] = a[i]
  BY <1>2, ConcatProperties
<1>4. a \o <<>> = a /\ <<>> \in Seq(Byte) BY ConcatEmptySeq, EmptySeq
<1> QED BY <1>1, <1>3, <1>4

LEMMA Behind ==
  ASSUME NEW a \in Seq(Byte), NEW b \in Seq(Byte), NEW i \in 1..Len(b)
  PROVE  (a \o b)[Len(a) + i] = b[i]
<1>1. Len(a) \in Nat /\ Len(b) \in Nat BY LenProperties
<1>2. Len(a) + i \in 1..Len(a) + Len(b) /\ ~(Len(a) + i <= Len(a))
      /\ (Len(a) + i) - Len(a) = i
  BY <1>1
<1>3. \A j \in 1..Len(a) + Len(b) :
        (a \o b)[j] = IF j <= Len(a) THEN a[j] ELSE b[j - Len(a)]
  BY ConcatProperties
<1> QED BY <1>2, <1>3

LEMMA CatAssociative ==
  ASSUME NEW a \in Seq(Byte), NEW b \in Seq(Byte), NEW c \in Seq(Byte)
  PROVE  a \o (b \o c) = (a \o b) \o c
BY ConcatAssociative

\* Two fields behind a first one are read back each where it begins ...
LEMMA ReadsTwo ==
  ASSUME NEW a \in Seq(Byte), NEW b \in Seq(Byte), NEW c \in Seq(Byte)
  PROVE  /\ Read(a \o (b \o c), Len(a), Len(b)) = b
         /\ Read(a \o (b \o c), Len(a) + Len(b), Len(c)) = c
<1>1. a \o (b \o c) = (a \o b) \o c BY CatAssociative
<1>2. Read((a \o b) \o c, Len(a), Len(b)) = b BY ReadsField
<1>3. Read((a \o b) \o c, Len(a) + Len(b), Len(c)) = c
  <2>1. PICK x \in Seq(Byte) : x = a \o b /\ Len(x) = Len(a) + Len(b) BY Cat
  <2>2. PICK e \in Seq(Byte) : e = <<>> BY Cat
  <2>3. Read((x \o c) \o e, Len(x), Len(c)) = c BY ReadsField
  <2>4. x \o c \in Seq(Byte) BY Cat
  <2>5. (x \o c) \o e = x \o c BY <2>2, <2>4, Cat
  <2> QED BY <2>1, <2>3, <2>5
<1> QED BY <1>1, <1>2, <1>3

LEMMA ReadsThree ==
  ASSUME NEW a \in Seq(Byte), NEW b \in Seq(Byte), NEW c \in Seq(Byte),
         NEW d \in Seq(Byte)
  PROVE  /\ Read(a \o ((b \o c) \o d), Len(a), Len(b)) = b
         /\ Read(a \o ((b \o c) \o d), Len(a) + Len(b), Len(c)) = c
         /\ Read(a \o ((b \o c) \o d), Len(a) + Len(b) + Len(c), Len(d)) = d
<1>1. ASSUME NEW x \in Seq(Byte)
      PROVE  /\ Read(x \o (c \o d), Len(x), Len(c)) = c
             /\ Read(x \o (c \o d), Len(x) + Len(c), Len(d)) = d
  BY ReadsTwo
<1>2. ASSUME NEW y \in Seq(Byte) PROVE Read(a \o (b \o y), Len(a), Len(b)) = b
  BY ReadsTwo
<1>3. a \o b \in Seq(Byte) /\ c \o d \in Seq(Byte) /\ Len(a \o b) = Len(a) + Len(b)
  BY Cat
<1>4. /\ Read((a \o b) \o (c \o d), Len(a \o b), Len(c)) = c
      /\ Read((a \o b) \o (c \o d), Len(a \o b) + Len(c), Len(d)) = d
  BY <1>1, <1>3, Zenon
<1>5. Read(a \o (b \o (c \o d)), Len(a), Len(b)) = b BY <1>2, <1>3, Zenon
<1>6. ASSUME NEW y \in Seq(Byte) PROVE a \o (b \o y) = (a \o b) \o y
  BY CatAssociative
<1>7. a \o (b \o (c \o d)) = (a \o b) \o (c \o d) BY <1>3, <1>6, Zenon
<1>8. b \o (c \o d) = (b \o c) \o d BY CatAssociative
<1>9. /\ a \o ((b \o c) \o d) = a \o (b \o (c \o d))
      /\ a \o ((b \o c) \o d) = (a \o b) \o (c \o d)
  BY <1>7, <1>8, Zenon
<1> QED BY <1>3, <1>4, <1>5, <1>9, Zenon

\* What Deserialize gives for each message is what Serialize took.
LEMMA ReadsBack ==
  ASSUME NEW type \in MessageTypes, NEW n \in Nat, NEW s \in Serialize(type, n)
  PROVE  Deserialize(type, s) = Meant(type, n)
<1> DEFINE head == Bytes("type", 1)
           id == Bytes("entity_id", 4)
           func == Bytes("func_name", 4)
           position == Bytes("position", 12)
           rotation == Bytes("rotation", 12)
           size == [k \in 1..4 |-> <<n, k>>]
           chars == Bytes("command", n)
<1>1. /\ head \in Seq(Byte) /\ Len(head) = 1
      /\ id \in Seq(Byte) /\ Len(id) = 4
      /\ func \in Seq(Byte) /\ Len(func) = 4
      /\ position \in Seq(Byte) /\ Len(position) = 12
      /\ rotation \in Seq(Byte) /\ Len(rotation) = 12
  <2>1. /\ "type" \in Names /\ "entity_id" \in Names /\ "func_name" \in Names
        /\ "position" \in Names /\ "rotation" \in Names
    BY DEF Names
  <2>2. 1 \in Nat /\ 4 \in Nat /\ 12 \in Nat OBVIOUS
  <2>3. head \in Seq(Byte) /\ Len(head) = 1 BY <2>1, <2>2, BytesOf
  <2>4. id \in Seq(Byte) /\ Len(id) = 4 BY <2>1, <2>2, BytesOf
  <2>5. func \in Seq(Byte) /\ Len(func) = 4 BY <2>1, <2>2, BytesOf
  <2>6. position \in Seq(Byte) /\ Len(position) = 12 BY <2>1, <2>2, BytesOf
  <2>7. rotation \in Seq(Byte) /\ Len(rotation) = 12 BY <2>1, <2>2, BytesOf
  <2> QED BY <2>3, <2>4, <2>5, <2>6, <2>7
<1>2. /\ position \in Seq(Byte) /\ Len(position) = 12
      /\ rotation \in Seq(Byte) /\ Len(rotation) = 12
  BY <1>1
<1>3. chars \in Seq(Byte) /\ Len(chars) = n
  <2>1. "command" \in Names BY DEF Names
  <2> QED BY <2>1, BytesOf
<1>4. size[1] = <<n, 1>> /\ size \in Seq(Byte) /\ Len(size) = 4
  <2>1. n \in Field /\ 4 \in Nat BY DEF Field
  <2>2. PICK m \in Nat : m = 4 OBVIOUS
  <2>3. size = [k \in 1..m |-> <<n, k>>] BY <2>2
  <2>4. size \in Seq(Byte) /\ Len(size) = m
    <3> HIDE DEF size
    <3> QED BY <2>1, <2>2, <2>3, BytesSeq
  <2> QED BY <2>2, <2>4
<1>5. n = 0 => chars = <<>>
  BY DEF Bytes
<1>6. CASE type = "EntityPosition"
  <2>1. /\ s = head \o ((id \o position) \o rotation)
        /\ Deserialize(type, s) = [entity_id |-> Read(s, 1, 4),
             position |-> Read(s, 5, 12), rotation |-> Read(s, 17, 12)]
    BY <1>6 DEF Serialize, Deserialize
  <2>2. Meant(type, n) = [entity_id |-> id, position |-> position,
                          rotation |-> rotation]
    BY <1>6 DEF Meant
  <2> HIDE DEF head, id, position, rotation
  <2>3. /\ Read(s, Len(head), Len(id)) = id
        /\ Read(s, Len(head) + Len(id), Len(position)) = position
        /\ Read(s, Len(head) + Len(id) + Len(position), Len(rotation)) = rotation
    <3>1. /\ head \in Seq(Byte) /\ id \in Seq(Byte) /\ position \in Seq(Byte)
          /\ rotation \in Seq(Byte)
      BY <1>1
    <3> DEFINE t == head \o ((id \o position) \o rotation)
    <3>2. /\ Read(t, Len(head), Len(id)) = id
          /\ Read(t, Len(head) + Len(id), Len(position)) = position
          /\ Read(t, Len(head) + Len(id) + Len(position), Len(rotation)) = rotation
      BY <3>1, ReadsThree
    <3> HIDE DEF t
    <3>3. s = t BY <2>1 DEF t
    <3> QED BY <3>2, <3>3
  <2>4. Read(s, 1, 4) = id BY <1>1, <2>3
  <2>5. Len(head) + Len(id) = 5 BY <1>1
  <2>6. Len(head) + Len(id) + Len(position) = 17 BY <1>2, <2>5
  <2>7. Read(s, 5, 12) = position BY <1>2, <2>3, <2>5
  <2>8. Read(s, 17, 12) = rotation BY <1>2, <2>3, <2>6
  <2>9. Deserialize(type, s) = Meant(type, n) BY <2>1, <2>2, <2>4, <2>7, <2>8
  <2> QED BY <2>9
<1>7. CASE type = "EntityDestroy"
  <2>1. s = head \o id /\ Deserialize(type, s) = [entity_id |-> Read(s, 1, 4)]
    BY <1>7 DEF Serialize, Deserialize
  <2>2. Meant(type, n) = [entity_id |-> id] BY <1>7 DEF Meant
  <2> HIDE DEF head, id
  <2>3. s \in Seq(Byte) /\ s \o <<>> = s /\ <<>> \in Seq(Byte) BY <1>1, <2>1, Cat
  <2>4. Read((head \o id) \o <<>>, Len(head), Len(id)) = id
    BY <1>1, <2>3, ReadsField
  <2>5. Read(s, 1, 4) = id BY <1>1, <2>1, <2>3, <2>4
  <2> QED BY <2>1, <2>2, <2>5
<1>8. CASE type = "RPCMessage"
  <2>1. /\ s = head \o (id \o func)
        /\ Deserialize(type, s) = [entity_id |-> Read(s, 1, 4),
                                   func_name |-> Read(s, 5, 4)]
    BY <1>8 DEF Serialize, Deserialize
  <2>2. Meant(type, n) = [entity_id |-> id, func_name |-> func] BY <1>8 DEF Meant
  <2> HIDE DEF head, id, func
  <2>5. /\ Read(s, Len(head), Len(id)) = id
        /\ Read(s, Len(head) + Len(id), Len(func)) = func
    <3>1. head \in Seq(Byte) /\ id \in Seq(Byte) /\ func \in Seq(Byte) BY <1>1
    <3> DEFINE t == head \o (id \o func)
    <3>2. /\ Read(t, Len(head), Len(id)) = id
          /\ Read(t, Len(head) + Len(id), Len(func)) = func
      BY <3>1, ReadsTwo
    <3> HIDE DEF t
    <3>3. s = t BY <2>1 DEF t
    <3> QED BY <3>2, <3>3
  <2>6. Len(head) + Len(id) = 5 BY <1>1
  <2>7. Read(s, 1, 4) = id /\ Read(s, 5, 4) = func BY <1>1, <2>5, <2>6
  <2>8. Deserialize(type, s) = Meant(type, n) BY <2>1, <2>2, <2>7
  <2> QED BY <2>8
<1>9. CASE type = "ConsoleCommand"
  <2>1. /\ s = head \o (size \o chars) /\ n < StringLimit
        /\ Deserialize(type, s) = [command |-> ReadString(s, 1)]
    BY <1>9 DEF Serialize, WriteString, Deserialize
  <2>2. Meant(type, n) = [command |-> chars]
    BY <1>9 DEF Meant
  <2> HIDE DEF head, size, chars
  <2>5. /\ Read(s, Len(head), Len(size)) = size
        /\ Read(s, Len(head) + Len(size), Len(chars)) = chars
    <3>1. head \in Seq(Byte) /\ size \in Seq(Byte) /\ chars \in Seq(Byte)
      BY <1>1, <1>3, <1>4
    <3> DEFINE t == head \o (size \o chars)
    <3>2. /\ Read(t, Len(head), Len(size)) = size
          /\ Read(t, Len(head) + Len(size), Len(chars)) = chars
      BY <3>1, ReadsTwo
    <3> HIDE DEF t
    <3>3. s = t BY <2>1 DEF t
    <3> QED BY <3>2, <3>3
  <2>6. Len(head) + Len(size) = 5 BY <1>1, <1>4
  <2>7. Read(s, 5, n) = chars BY <1>3, <2>5, <2>6
  <2>8. s[2] = size[1]
    <3>1. size \in Seq(Byte) /\ chars \in Seq(Byte) /\ head \in Seq(Byte)
      BY <1>1, <1>3, <1>4
    <3>2. /\ size \o chars \in Seq(Byte) /\ Len(size \o chars) = Len(size) + Len(chars)
          /\ \A i \in 1..Len(size) : (size \o chars)[i] = size[i]
      BY <3>1, Cat
    <3>3. (size \o chars)[1] = size[1] BY <1>4, <3>2
    <3>4. (head \o (size \o chars))[Len(head) + 1] = (size \o chars)[1]
      <4>1. PICK b \in Seq(Byte) : b = size \o chars BY <3>2
      <4>2. 1 \in 1..Len(b) /\ b \in Seq(Byte) BY <1>3, <1>4, <3>2, <4>1
      <4>3. (head \o b)[Len(head) + 1] = b[1] BY <3>1, <4>2, Behind
      <4> QED BY <4>1, <4>3
    <3>5. Len(head) + 1 = 2 BY <1>1
    <3>6. s[2] = (size \o chars)[1] BY <2>1, <3>4, <3>5
    <3> QED BY <3>3, <3>6
  <2>9. s[2][1] = n BY <1>4, <2>8
  <2>10. ReadString(s, 1) = IF 0 < n /\ n < StringLimit THEN chars ELSE <<>>
    BY <2>7, <2>9 DEF ReadString
  <2>11. ReadString(s, 1) = chars
    <3>1. n = 0 \/ 0 < n OBVIOUS
    <3> QED BY <1>5, <2>1, <2>10, <3>1
  <2>12. Deserialize(type, s) = Meant(type, n) BY <2>1, <2>2, <2>11
  <2> QED BY <2>12
<1> QED BY <1>6, <1>7, <1>8, <1>9 DEF MessageTypes

\* Deserialize gives back what Serialize writes, strings to their last character,
\* for any limit and any length (message.h:102-183, rrapi.cpp:116-135).
THEOREM MessagesAreReadBack == PacketsSpec => []MessagesReadBack
<1>1. PacketsInv => MessagesReadBack
  <2> SUFFICES ASSUME PacketsInv, packet # None, packet.type \in MessageTypes,
                      NEW bytes \in Serialize(packet.type, packet.n)
               PROVE  Deserialize(packet.type, bytes) = Meant(packet.type, packet.n)
    BY DEF MessagesReadBack
  <2>1. packet \in Messages
    BY DEF PacketsInv, PacketsTypeOK, MessageTypes
  <2>2. packet.n \in Nat BY <2>1, LengthsNatural DEF Messages
  <2> QED BY <2>2, ReadsBack
<1> QED BY <1>1, PacketsInvariance, PTL
=============================================================================
