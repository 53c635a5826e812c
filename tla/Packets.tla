------------------------------ MODULE Packets ------------------------------
(***************************************************************************)
(* What the message hook makes of the bytes of a packet: the messages it   *)
(* reads field by field, and the environments it rewrites in place while   *)
(* the overlay's thread changes the weather settings.                      *)
(*                                                                         *)
(* Values are opaque.  Of a date the number of bits counts, since a varint *)
(* is as long as its value needs; of a string, its length.  The writing    *)
(* side of the messages is message.h's, with which the game server agrees. *)
(***************************************************************************)
EXTENDS Integers, Sequences, FiniteSets

CONSTANTS None,         \* no packet
          Dates,        \* pairs of a number of bits and a name: the dates sent
          Lengths,      \* the lengths of the console commands sent
          StringLimit   \* strings are shorter than this (10485761 in the code)

\* A date is a signed 64-bit value.
ASSUME DatesSized == \A date \in Dates : date[1] \in 0..64
ASSUME LengthsNatural == Lengths \subseteq Nat /\ StringLimit \in Nat \ {0}

VARIABLES
  weather,  \* the fields of settings->weather
  packet,   \* the packet of the game server that is handled, or None
  env,      \* the Environment that is being rewritten, or None
  data,     \* what matters of the buffer of an environment's packet: what is in
            \* it, the packet's length, and how much of it the entity takes
  pc,       \* "receive", the setting whose test is next, "copy", "forward", or
            \* "crashed" once the process has ended
  seen      \* history: the values each setting had since the packet came

packetVars == <<weather, packet, env, data, pc, seen>>

Amounts == {"clouds", "fog", "wind", "rain"}
Boxes   == {"always_day", "freeze_time", "no_fog", "no_rain", "no_clouds", "no_wind"}

\* Fault: a date whose top bit is set, as that of a local time is.
Day_Local == <<64, "day">>

\* always_day sets the date 5250213488693405818.
Day == <<63, "day">>
Environments == [date : Dates \cup {Day}, amounts : [Amounts -> {"sent", "zero"}]]
Sent(date)   == [date |-> date, amounts |-> [a \in Amounts |-> "sent"]]

MessageTypes == {"EntityPosition", "EntityDestroy", "RPCMessage", "ConsoleCommand"}

Messages == [type : MessageTypes, n : Lengths]
ASSUME NoneApart == /\ None \notin Environments \cup Messages
                    /\ None \notin [type : {"Entities"}, date : Dates]
                    /\ None \notin [env : Environments, size : Nat, used : Nat]

-----------------------------------------------------------------------------
(* The encodings, as sequences of bytes named by their field and number.   *)

\* VarintSize64.
VarintSize(bits) == IF bits = 0 THEN 1 ELSE (bits + 6) \div 7

\* Environment::ByteSize: all fields are required, and have a tag and a value.
ByteSize(e) == 1 + VarintSize(e.date[1]) + Cardinality(Amounts) * (1 + 4)

\* Environment: the entity's bytes and what is before and behind it.
PacketSize(e) == 5 + 1 + 1 + ByteSize(e) + 3

Bytes(field, n) == [k \in 1..n |-> <<field, k>>]

\* WriteString: the length and the characters, or nothing if the assertion on
\* the length fails.
WriteString(n) ==
  IF n < StringLimit THEN {[k \in 1..4 |-> <<n, k>>] \o Bytes("command", n)} ELSE {}

\* Serialize of each message, n the length of its string: what it may write.
Serialize(type, n) ==
  {Bytes("type", 1) \o fields : fields \in
    CASE type = "EntityPosition" ->
           {Bytes("entity_id", 4) \o Bytes("position", 12) \o Bytes("rotation", 12)}
      [] type = "EntityDestroy"  -> {Bytes("entity_id", 4)}
      [] type = "RPCMessage"     -> {Bytes("entity_id", 4) \o Bytes("func_name", 4)}
      [] type = "ConsoleCommand" -> WriteString(n)}

\* Read, of the n bytes after the first at.
Read(bytes, at, n) == SubSeq(bytes, at + 1, at + n)

\* Fault: the reader's limit is one less than the writer's.
ReadString_Limit(bytes, at) ==
  LET size == bytes[at + 1][1]
  IN  IF 0 < size /\ size < StringLimit - 1 THEN Read(bytes, at + 4, size) ELSE <<>>

\* ReadString: nothing of one that is too long.
ReadString(bytes, at) ==
  LET size == bytes[at + 1][1]
  IN  IF 0 < size /\ size < StringLimit THEN Read(bytes, at + 4, size) ELSE <<>>

\* Deserialize of each message, behind its type.
Deserialize(type, bytes) ==
  CASE type = "EntityPosition" ->
         [entity_id |-> Read(bytes, 1, 4), position |-> Read(bytes, 5, 12),
          rotation |-> Read(bytes, 17, 12)]
    [] type = "EntityDestroy"  -> [entity_id |-> Read(bytes, 1, 4)]
    [] type = "RPCMessage"     -> [entity_id |-> Read(bytes, 1, 4),
                                   func_name |-> Read(bytes, 5, 4)]
    [] type = "ConsoleCommand" -> [command |-> ReadString(bytes, 1)]

-----------------------------------------------------------------------------
(* The listening thread in the hook, and the overlay's thread.             *)

PacketsInit ==
  /\ weather = [b \in Boxes |-> FALSE] /\ seen = [b \in Boxes |-> {}]
  /\ packet = None /\ env = None /\ data = None /\ pc = "receive"

\* A packet comes: a message, one that can be written, is only read, an
\* environment is copied ...
ReceivesMessage ==
  /\ pc = "receive"
  /\ packet' \in {m \in Messages : Serialize(m.type, m.n) # {}}
  /\ pc' = "forward"
  /\ UNCHANGED <<weather, env, data, seen>>

ReceivesEnvironment ==
  /\ pc = "receive"
  /\ \E date \in Dates :
       /\ packet' = [type |-> "Entities", date |-> date] /\ env' = Sent(date)
       /\ data' = [env |-> env', size |-> PacketSize(env'), used |-> PacketSize(env')]
  /\ seen' = [b \in Boxes |-> {weather[b]}]
  /\ pc' = "always_day"
  /\ UNCHANGED weather

\* ... and each setting, read by itself, changes a field of the copy ...
Following == [always_day |-> "no_fog", no_fog |-> "no_rain", no_rain |-> "no_clouds",
              no_clouds |-> "no_wind", no_wind |-> "copy"]

\* Faults: the field is cleared rather than set to 0; all amounts are.
Neutral_Unset(box) == [env EXCEPT !.amounts.fog = "unset"]
Neutral_All(box)   == [env EXCEPT !.amounts = [a \in Amounts |-> "zero"]]

Neutral(box) ==
  CASE box = "always_day" -> [env EXCEPT !.date = Day]
    [] box = "no_fog"     -> [env EXCEPT !.amounts.fog = "zero"]
    [] box = "no_rain"    -> [env EXCEPT !.amounts.rain = "zero"]
    [] box = "no_clouds"  -> [env EXCEPT !.amounts.clouds = "zero"]
    [] box = "no_wind"    -> [env EXCEPT !.amounts.wind = "zero"]

if_setting ==
  /\ pc \in DOMAIN Following
  /\ env' = IF weather[pc] THEN Neutral(pc) ELSE env
  /\ pc' = Following[pc]
  /\ UNCHANGED <<weather, packet, data, seen>>

\* ... which is then written over the packet, whose length stays.  Past its end
\* the behaviour is undefined.
Copies ==
  /\ pc = "copy"
  /\ data' = [data EXCEPT !.env = env, !.used = PacketSize(env)]
  /\ pc' \in {"forward"} \cup (IF PacketSize(env) > data.size THEN {"crashed"} ELSE {})
  /\ UNCHANGED <<weather, packet, env, seen>>

Forwards ==
  /\ pc = "forward" /\ pc' = "receive"
  /\ packet' = None /\ env' = None /\ data' = None
  /\ seen' = [b \in Boxes |-> {}]
  /\ UNCHANGED weather

\* A check box is clicked; the two about time hide each other.
Shown(box) == /\ box = "always_day"  => ~weather.freeze_time
              /\ box = "freeze_time" => ~weather.always_day

Checkbox(box) ==
  /\ pc # "crashed"
  /\ Shown(box)
  /\ weather' = [weather EXCEPT ![box] = ~@]
  /\ seen' = [seen EXCEPT ![box] = IF env = None THEN @ ELSE @ \cup {~weather[box]}]
  /\ UNCHANGED <<packet, env, data, pc>>

PacketsEnded == pc = "crashed" /\ UNCHANGED packetVars

PacketsNext == \/ ReceivesMessage \/ ReceivesEnvironment \/ if_setting
               \/ Copies \/ Forwards \/ PacketsEnded
               \/ \E box \in Boxes : Checkbox(box)

PacketsSpec == PacketsInit /\ [][PacketsNext]_packetVars

-----------------------------------------------------------------------------
(* Properties.                                                             *)

\* Every variable has its type; an environment on its way always has all the
\* fields that the game client requires (main.cpp:69-88).
PacketsTypeOK ==
  /\ weather \in [Boxes -> BOOLEAN] /\ seen \in [Boxes -> SUBSET BOOLEAN]
  /\ packet \in {None} \cup Messages \cup [type : {"Entities"}, date : Dates]
  /\ env \in {None} \cup Environments
  /\ data \in {None} \cup [env : Environments, size : Nat, used : Nat]
  /\ pc \in DOMAIN Following \cup {"receive", "copy", "forward", "crashed"}

\* Which setting makes a field what the game server did not say it is.
SettingOf == [fog |-> "no_fog", rain |-> "no_rain", clouds |-> "no_clouds",
              wind |-> "no_wind"]

\* Though the settings are read one by one while the user clicks, each field of
\* the environment sent on is what its setting made of it at some moment of the
\* pass.  So if one box at most is clicked during the pass, it is what the
\* settings as a whole gave at some moment; with more clicks it may be a mix that
\* was never set (main.cpp:79-88, overlay.cpp:144-151).
WeatherHonoured ==
  pc = "forward" /\ data # None =>
    /\ \E on \in seen.always_day : data.env.date = IF on THEN Day ELSE packet.date
    /\ \A a \in Amounts : \E on \in seen[SettingOf[a]] :
         data.env.amounts[a] = IF on THEN "zero" ELSE "sent"

\* The rewritten entity is copied over the packet without regard to its length.
\* It goes past the end exactly if the day replaced a date of less than 57 bits,
\* then by eight bytes at most, and falls short, by one, exactly if it replaced
\* one of 64; amounts set to 0 do not shorten it (main.cpp:79-83, :88).
OverrunsExplained ==
  data # None =>
    LET over == data.used - data.size
    IN  /\ over > 0 <=> packet.date[1] < 57 /\ data.env.date = Day
        /\ over < 0 <=> packet.date[1] = 64 /\ data.env.date = Day
        /\ over \in -1..8

\* What Serialize writes, Deserialize gives back, to the last character of the
\* longest string that WriteString's assertion lets through: the writer and the
\* reader, each with a limit of its own, agree (message.h:102-183,
\* rrapi.cpp:121, :132).
Meant(type, n) ==
  [field \in CASE type = "EntityPosition" -> {"entity_id", "position", "rotation"}
               [] type = "EntityDestroy"  -> {"entity_id"}
               [] type = "RPCMessage"     -> {"entity_id", "func_name"}
               [] type = "ConsoleCommand" -> {"command"} |->
     Bytes(field, CASE field \in {"entity_id", "func_name"} -> 4
                    [] field \in {"position", "rotation"}   -> 12
                    [] field = "command" -> n)]

MessagesReadBack ==
  packet # None /\ packet.type \in MessageTypes =>
    \A bytes \in Serialize(packet.type, packet.n) :
      Deserialize(packet.type, bytes) = Meant(packet.type, packet.n)
=============================================================================
