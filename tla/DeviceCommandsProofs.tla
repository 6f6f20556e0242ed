------------------------ MODULE DeviceCommandsProofs ------------------------
(***************************************************************************)
(* What the commands keep to, for every set of commands and kinds, any     *)
(* number of attempts and any number of failures, resets and kills: no     *)
(* image is refused, and a success means that the work was done.           *)
(***************************************************************************)
EXTENDS DeviceCommands, TLAPS

-----------------------------------------------------------------------------
(* The steps of a command, and their order.                                 *)

Menu(n) ==
  CASE n = "restore" ->
         {"version", "get", "getWTF", "sendFirst", "waitWTF", "getRecovery", "sendNext",
          "waitDisk", "information", "repartition", "bootloader", "firmware", "finalize"}
    [] n = "superdiags" -> {"build", "getWTF", "trigger", "sendFirst", "waitWTF", "sendNext"}
    [] n = "cfwrun" ->
         {"read", "getWTF", "trigger", "sendFirst", "pack", "waitWTF", "sendNext"}
    [] n = "run" -> {"trigger", "read", "pack", "clean", "sendFirst"}
    [] n = "haxdfu" -> {"trigger"}

(* One order serves all commands, but for the two ways to treat a file.     *)
Rank(n, s) ==
  CASE s = "read" -> (IF n = "run" THEN 6 ELSE 1)
    [] s = "pack" -> (IF n = "run" THEN 7 ELSE 10)
    [] s = "build" -> 2
    [] s = "version" -> 2
    [] s = "get" -> 3
    [] s = "getWTF" -> 4
    [] s = "trigger" -> 5
    [] s = "clean" -> 8
    [] s = "sendFirst" -> 9
    [] s = "waitWTF" -> 11
    [] s = "getRecovery" -> 12
    [] s = "sendNext" -> 13
    [] s = "waitDisk" -> 14
    [] s = "information" -> 15
    [] s = "repartition" -> 16
    [] s = "bootloader" -> 17
    [] s = "firmware" -> 18
    [] s = "finalize" -> 19
    [] OTHER -> 20

Elems(s) == {s[i] : i \in 1 .. Len(s)}

Ordered(n, s) == \A i, j \in 1 .. Len(s) : i < j => Rank(n, s[i]) < Rank(n, s[j])

Left == Elems(todo)
Running == result = "running"
Opened == Running /\ "open" \notin Left

-----------------------------------------------------------------------------
(* The invariant.                                                           *)

(* A running command has steps of its own left, in order.                   *)
Shape ==
  /\ cmd \in Commands
  /\ Running =>
       /\ todo \in Seq(Menu(cmd.name) \cup {"open"}) /\ Ordered(cmd.name, todo)
       /\ "open" \in Left => Left \subseteq {"open"}

(* What the steps of a restore that are behind it have achieved.            *)
Restored ==
  Opened /\ cmd.name = "restore" /\ cmd.version # "list" =>
    /\ "version" \notin Left => override = cmd.version
    /\ "get" \notin Left => cmd.version \in Releases
    /\ "firmware" \notin Left => fw = cmd.version /\ Left \subseteq {"finalize"}
    /\ cmd.full /\ "repartition" \notin Left => part = cmd.version
    /\ cmd.full /\ HasBootloader(desc) /\ "bootloader" \notin Left => bl = cmd.version

(* What those of the other commands have.                                   *)
Sent ==
  Opened =>
    /\ cmd.name \in {"superdiags", "cfwrun"} /\ "sendNext" \notin Left =>
         took = "App" /\ Left = {}
    /\ cmd.name = "run" /\ "sendFirst" \notin Left => took = "App" /\ Left = {}
    /\ cmd.name \in {"cfwrun", "run"} =>
         /\ "read" \notin Left => cmd.file # "missing"
         /\ "pack" \notin Left => cmd.file # "bad"

(* A device that a command has past the trigger, and still holds, trusts it:*)
(* nothing else than the patched WTF comes up in that mode meanwhile.       *)
Trusted ==
  Opened /\ cmd.name # "restore" =>
    /\ boot \in {"none", "patchedWTF", "App"}
    /\ mode = "WTF" => trusting
    /\ live /\ "trigger" \notin Left => trusting

CommandsInv == Shape /\ Restored /\ Sent /\ Trusted /\ NothingRefused /\ OkMeansDone

-----------------------------------------------------------------------------
(* Steps in order.                                                          *)

(* Doing the first of the steps leaves those after it.                      *)
LEMMA TailLeaves ==
  ASSUME NEW n, NEW S, NEW s \in Seq(S), s # <<>>, Ordered(n, s)
  PROVE  /\ Tail(s) \in Seq(S) /\ Ordered(n, Tail(s))
         /\ Head(s) \in S /\ Head(s) \in Elems(s)
         /\ Elems(Tail(s)) \subseteq Elems(s)
         /\ Elems(s) = {Head(s)} \cup Elems(Tail(s))
         /\ \A e \in Elems(Tail(s)) : Rank(n, Head(s)) < Rank(n, e)
         /\ \A e \in Elems(s) : e \in S
<1>1. /\ Len(s) \in Nat /\ Len(s) >= 1 /\ Len(Tail(s)) = Len(s) - 1 /\ Head(s) = s[1]
      /\ Tail(s) \in Seq(S) /\ \A i \in 1 .. Len(s) : s[i] \in S
  OBVIOUS
<1>2. \A i \in 1 .. Len(Tail(s)) : Tail(s)[i] = s[i + 1] /\ i + 1 \in 1 .. Len(s)
  BY <1>1
<1>3. Ordered(n, Tail(s))
  BY <1>1, <1>2 DEF Ordered
<1>4. Elems(Tail(s)) \subseteq Elems(s)
  BY <1>1, <1>2 DEF Elems
<1>5. Elems(s) = {Head(s)} \cup Elems(Tail(s))
  <2>1. Head(s) \in Elems(s)
    BY <1>1 DEF Elems
  <2>2. ASSUME NEW i \in 1 .. Len(s) PROVE s[i] = Head(s) \/ s[i] \in Elems(Tail(s))
    <3>1. CASE i = 1
      BY <3>1, <1>1
    <3>2. CASE i # 1
      <4>1. i - 1 \in 1 .. Len(Tail(s)) /\ Tail(s)[i - 1] = s[i]
        BY <3>2, <1>1, <1>2
      <4>2. QED
        BY <4>1 DEF Elems
    <3>3. QED
      BY <3>1, <3>2
  <2>3. QED
    BY <2>1, <2>2, <1>4 DEF Elems
<1>6. ASSUME NEW e \in Elems(Tail(s)) PROVE Rank(n, Head(s)) < Rank(n, e)
  <2>1. PICK i \in 1 .. Len(Tail(s)) : e = Tail(s)[i]
    BY DEF Elems
  <2>2. i + 1 \in 1 .. Len(s) /\ 1 \in 1 .. Len(s) /\ 1 < i + 1 /\ e = s[i + 1]
    BY <2>1, <1>1, <1>2
  <2>3. QED
    BY <2>2, <1>1 DEF Ordered
<1>7. QED
  BY <1>1, <1>3, <1>4, <1>5, <1>6 DEF Elems

LEMMA ConcatOrdered ==
  ASSUME NEW n, NEW S, NEW s \in Seq(S), NEW t \in Seq(S), Ordered(n, s), Ordered(n, t),
         \A a \in Elems(s), b \in Elems(t) : Rank(n, a) < Rank(n, b)
  PROVE  /\ s \o t \in Seq(S) /\ Ordered(n, s \o t)
         /\ Elems(s \o t) = Elems(s) \cup Elems(t)
<1>1. /\ s \o t \in Seq(S) /\ Len(s) \in Nat /\ Len(t) \in Nat /\ Len(s \o t) = Len(s) + Len(t)
      /\ \A i \in 1 .. Len(s) : (s \o t)[i] = s[i]
      /\ \A i \in 1 .. Len(t) : (s \o t)[Len(s) + i] = t[i]
  OBVIOUS
<1>2. \A i \in 1 .. Len(s \o t) :
        \/ i \in 1 .. Len(s) /\ (s \o t)[i] = s[i]
        \/ i - Len(s) \in 1 .. Len(t) /\ (s \o t)[i] = t[i - Len(s)]
  <2> TAKE i \in 1 .. Len(s \o t)
  <2>1. CASE i <= Len(s)
    BY <2>1, <1>1
  <2>2. CASE i > Len(s)
    <3>1. i - Len(s) \in 1 .. Len(t) /\ i = Len(s) + (i - Len(s))
      BY <2>2, <1>1
    <3>2. QED
      BY <3>1, <1>1
  <2>3. QED
    BY <2>1, <2>2, <1>1
<1>3. Elems(s \o t) = Elems(s) \cup Elems(t)
  <2>1. Elems(s \o t) \subseteq Elems(s) \cup Elems(t)
    BY <1>2 DEF Elems
  <2>2. Elems(s) \subseteq Elems(s \o t)
    BY <1>1 DEF Elems
  <2>3. Elems(t) \subseteq Elems(s \o t)
    <3>1. \A i \in 1 .. Len(t) : Len(s) + i \in 1 .. Len(s \o t)
      BY <1>1
    <3>2. QED
      BY <3>1, <1>1 DEF Elems
  <2>4. QED
    BY <2>1, <2>2, <2>3
<1>4. ASSUME NEW i \in 1 .. Len(s \o t), NEW j \in 1 .. Len(s \o t), i < j
      PROVE  Rank(n, (s \o t)[i]) < Rank(n, (s \o t)[j])
  <2>1. CASE j \in 1 .. Len(s) /\ (s \o t)[j] = s[j]
    BY <2>1, <1>1, <1>2, <1>4 DEF Ordered
  <2>2. CASE j - Len(s) \in 1 .. Len(t) /\ (s \o t)[j] = t[j - Len(s)]
    <3>1. CASE i \in 1 .. Len(s) /\ (s \o t)[i] = s[i]
      BY <2>2, <3>1 DEF Elems
    <3>2. CASE i - Len(s) \in 1 .. Len(t) /\ (s \o t)[i] = t[i - Len(s)]
      BY <2>2, <3>2, <1>1, <1>4 DEF Ordered
    <3>3. QED
      BY <3>1, <3>2, <1>2
  <2>3. QED
    BY <2>1, <2>2, <1>2
<1>5. QED
  BY <1>1, <1>3, <1>4 DEF Ordered

LEMMA ElemsIn ==
  ASSUME NEW S, NEW s \in Seq(S)
  PROVE  Elems(s) \subseteq S
<1>1. \A i \in 1 .. Len(s) : s[i] \in S
  OBVIOUS
<1>2. QED
  BY <1>1 DEF Elems

LEMMA NoSteps ==
  ASSUME NEW n, NEW S
  PROVE  <<>> \in Seq(S) /\ Ordered(n, <<>>) /\ Elems(<<>>) = {}
BY DEF Ordered, Elems

LEMMA OneStep ==
  ASSUME NEW n, NEW S, NEW a \in S
  PROVE  <<a>> \in Seq(S) /\ Ordered(n, <<a>>) /\ Elems(<<a>>) = {a}
BY DEF Ordered, Elems

LEMMA TwoSteps ==
  ASSUME NEW n, NEW S, NEW a \in S, NEW b \in S, Rank(n, a) < Rank(n, b)
  PROVE  <<a, b>> \in Seq(S) /\ Ordered(n, <<a, b>>) /\ Elems(<<a, b>>) = {a, b}
BY DEF Ordered, Elems

LEMMA ThreeSteps ==
  ASSUME NEW n, NEW S, NEW a \in S, NEW b \in S, NEW c \in S,
         Rank(n, a) < Rank(n, b), Rank(n, b) < Rank(n, c), Rank(n, a) < Rank(n, c)
  PROVE  <<a, b, c>> \in Seq(S) /\ Ordered(n, <<a, b, c>>) /\ Elems(<<a, b, c>>) = {a, b, c}
BY DEF Ordered, Elems

LEMMA RunSteps ==
  LET s == <<"trigger", "read", "pack", "clean", "sendFirst">>
  IN  s \in Seq(Menu("run")) /\ Ordered("run", s) /\ Elems(s) = Menu("run")
BY DEF Ordered, Elems, Menu, Rank

LEMMA SuperdiagsSteps ==
  LET s == <<"build", "getWTF", "trigger", "sendFirst", "waitWTF", "sendNext">>
  IN  /\ s \in Seq(Menu("superdiags")) /\ Ordered("superdiags", s)
      /\ Elems(s) = Menu("superdiags")
BY DEF Ordered, Elems, Menu, Rank

LEMMA CfwRunSteps ==
  LET s == <<"read", "getWTF", "trigger", "sendFirst", "pack", "waitWTF", "sendNext">>
  IN  s \in Seq(Menu("cfwrun")) /\ Ordered("cfwrun", s) /\ Elems(s) = Menu("cfwrun")
BY DEF Ordered, Elems, Menu, Rank

(* A list of the steps in E, between ranks l and u.                         *)
Lists(n, s, E, l, u) ==
  /\ s \in Seq(Menu(n)) /\ Ordered(n, s) /\ Elems(s) = E
  /\ \A e \in E : Rank(n, e) \in l .. u

LEMMA Joined ==
  ASSUME NEW n, NEW s, NEW t, NEW E, NEW F,
         NEW l \in Nat, NEW k \in Nat, NEW j \in Nat, NEW u \in Nat,
         l <= j, k < j, k <= u, Lists(n, s, E, l, k), Lists(n, t, F, j, u)
  PROVE  Lists(n, s \o t, E \cup F, l, u)
<1>1. /\ s \in Seq(Menu(n)) /\ Ordered(n, s) /\ Elems(s) = E
      /\ t \in Seq(Menu(n)) /\ Ordered(n, t) /\ Elems(t) = F
      /\ \A e \in E : Rank(n, e) \in l .. k
      /\ \A e \in F : Rank(n, e) \in j .. u
  BY DEF Lists
<1>2. \A a \in Elems(s), b \in Elems(t) : Rank(n, a) < Rank(n, b)
  BY <1>1
<1>3. /\ s \o t \in Seq(Menu(n)) /\ Ordered(n, s \o t)
      /\ Elems(s \o t) = E \cup F
  BY <1>1, <1>2, ConcatOrdered
<1>4. \A e \in E \cup F : Rank(n, e) \in l .. u
  BY <1>1
<1>5. QED
  BY <1>3, <1>4 DEF Lists

(* The pieces of a restore.                                                 *)
LEMMA Pieces ==
  /\ Lists("restore", <<"version", "get">>, {"version", "get"}, 2, 3)
  /\ Lists("restore", <<"getWTF", "sendFirst", "waitWTF">>,
           {"getWTF", "sendFirst", "waitWTF"}, 4, 11)
  /\ Lists("restore", <<"getRecovery", "sendNext", "waitDisk">>,
           {"getRecovery", "sendNext", "waitDisk"}, 12, 14)
  /\ Lists("restore", <<"information">>, {"information"}, 15, 15)
  /\ Lists("restore", <<"repartition">>, {"repartition"}, 16, 16)
  /\ Lists("restore", <<"bootloader">>, {"bootloader"}, 17, 17)
  /\ Lists("restore", <<"firmware", "finalize">>, {"firmware", "finalize"}, 18, 19)
  /\ \A l, u : Lists("restore", <<>>, {}, l, u)
<1> DEFINE R(s) == Rank("restore", s)
<1>1. /\ R("version") = 2 /\ R("get") = 3 /\ R("getWTF") = 4 /\ R("sendFirst") = 9
      /\ R("waitWTF") = 11 /\ R("getRecovery") = 12 /\ R("sendNext") = 13
      /\ R("waitDisk") = 14 /\ R("information") = 15 /\ R("repartition") = 16
      /\ R("bootloader") = 17 /\ R("firmware") = 18 /\ R("finalize") = 19
  BY DEF Rank
<1>2. {"version", "get", "getWTF", "sendFirst", "waitWTF", "getRecovery", "sendNext",
       "waitDisk", "information", "repartition", "bootloader", "firmware", "finalize"}
        \subseteq Menu("restore")
  BY DEF Menu
<1> HIDE DEF R
<1>3. /\ Lists("restore", <<"version", "get">>, {"version", "get"}, 2, 3)
      /\ Lists("restore", <<"firmware", "finalize">>, {"firmware", "finalize"}, 18, 19)
  BY <1>1, <1>2, TwoSteps DEF Lists, R
<1>4. /\ Lists("restore", <<"getWTF", "sendFirst", "waitWTF">>,
               {"getWTF", "sendFirst", "waitWTF"}, 4, 11)
      /\ Lists("restore", <<"getRecovery", "sendNext", "waitDisk">>,
               {"getRecovery", "sendNext", "waitDisk"}, 12, 14)
  BY <1>1, <1>2, ThreeSteps DEF Lists, R
<1>5. /\ Lists("restore", <<"information">>, {"information"}, 15, 15)
      /\ Lists("restore", <<"repartition">>, {"repartition"}, 16, 16)
      /\ Lists("restore", <<"bootloader">>, {"bootloader"}, 17, 17)
  BY <1>1, <1>2, OneStep DEF Lists, R
<1>6. \A l, u : Lists("restore", <<>>, {}, l, u)
  BY NoSteps DEF Lists
<1>7. QED
  BY <1>3, <1>4, <1>5, <1>6

(* A restore begins with the release and ends with the firmware, and has    *)
(* the steps in between that the device calls for.                          *)
LEMMA RestoreOrdered ==
  ASSUME NEW m, cmd \in Commands, cmd.version # "list"
  PROVE  /\ RestoreSteps(m) \in Seq(Menu("restore")) /\ Ordered("restore", RestoreSteps(m))
         /\ {"version", "get", "firmware"} \subseteq Elems(RestoreSteps(m))
         /\ cmd.full => "repartition" \in Elems(RestoreSteps(m))
         /\ cmd.full /\ HasBootloader(SeenAs(kind, m)) =>
              "bootloader" \in Elems(RestoreSteps(m))
<1> DEFINE full == cmd.full
           loader == cmd.full /\ HasBootloader(SeenAs(kind, m))
           a == <<"version", "get">>
           b == IF m = "DFU" THEN <<"getWTF", "sendFirst", "waitWTF">> ELSE <<>>
           c == IF m # "Disk" THEN <<"getRecovery", "sendNext", "waitDisk">> ELSE <<>>
           d == <<"information">>
           e == IF full THEN <<"repartition">> ELSE <<>>
           f == IF loader THEN <<"bootloader">> ELSE <<>>
           g == <<"firmware", "finalize">>
           B == IF m = "DFU" THEN {"getWTF", "sendFirst", "waitWTF"} ELSE {}
           C == IF m # "Disk" THEN {"getRecovery", "sendNext", "waitDisk"} ELSE {}
           E == IF full THEN {"repartition"} ELSE {}
           F == IF loader THEN {"bootloader"} ELSE {}
<1>1. RestoreSteps(m) = ((((((a \o b) \o c) \o d) \o e) \o f) \o g)
  BY DEF RestoreSteps
<1> HIDE DEF full, loader
<1>2. /\ Lists("restore", a, {"version", "get"}, 2, 3)
      /\ Lists("restore", b, B, 4, 11) /\ Lists("restore", c, C, 12, 14)
      /\ Lists("restore", d, {"information"}, 15, 15)
      /\ Lists("restore", e, E, 16, 16) /\ Lists("restore", f, F, 17, 17)
      /\ Lists("restore", g, {"firmware", "finalize"}, 18, 19)
  BY Pieces
<1>3. ("repartition" \in E <=> full) /\ ("bootloader" \in F <=> loader)
  OBVIOUS
<1> HIDE DEF a, b, c, d, e, f, g, B, C, E, F
<1>4. Lists("restore", a \o b, {"version", "get"} \cup B, 2, 11)
  BY <1>2, Joined
<1>5. Lists("restore", (a \o b) \o c, {"version", "get"} \cup B \cup C, 2, 14)
  BY <1>2, <1>4, Joined
<1>6. Lists("restore", ((a \o b) \o c) \o d,
            {"version", "get"} \cup B \cup C \cup {"information"}, 2, 15)
  BY <1>2, <1>5, Joined
<1>7. Lists("restore", (((a \o b) \o c) \o d) \o e,
            {"version", "get"} \cup B \cup C \cup {"information"} \cup E, 2, 16)
  BY <1>2, <1>6, Joined
<1>8. Lists("restore", ((((a \o b) \o c) \o d) \o e) \o f,
            {"version", "get"} \cup B \cup C \cup {"information"} \cup E \cup F, 2, 17)
  BY <1>2, <1>7, Joined
<1>9. Lists("restore", (((((a \o b) \o c) \o d) \o e) \o f) \o g,
            {"version", "get"} \cup B \cup C \cup {"information"} \cup E \cup F
              \cup {"firmware", "finalize"}, 2, 19)
  BY <1>2, <1>8, Joined
<1>10. QED
  BY <1>1, <1>3, <1>9 DEF Lists, full, loader

(* What a command sets out to do.                                           *)
LEMMA StepsOrdered ==
  ASSUME NEW m, cmd \in Commands
  PROVE  /\ Steps(m) \in Seq(Menu(cmd.name)) /\ Ordered(cmd.name, Steps(m))
         /\ "open" \notin Menu(cmd.name)
         /\ cmd.name # "restore" => Elems(Steps(m)) = Menu(cmd.name)
         /\ cmd.name = "restore" /\ cmd.version # "list" =>
              /\ {"version", "get", "firmware"} \subseteq Elems(Steps(m))
              /\ cmd.full => "repartition" \in Elems(Steps(m))
              /\ cmd.full /\ HasBootloader(SeenAs(kind, m)) => "bootloader" \in Elems(Steps(m))
<1>1. cmd.name \in Names
  BY CommandsAssumption
<1>2. "open" \notin Menu(cmd.name)
  BY <1>1 DEF Names, Menu
<1>3. CASE cmd.name = "restore" /\ cmd.version # "list"
  BY <1>2, <1>3, RestoreOrdered DEF Steps
<1>4. CASE cmd.name = "restore" /\ cmd.version = "list"
  <2>1. Steps(m) = <<>>
    BY <1>4 DEF Steps, RestoreSteps
  <2>2. QED
    BY <1>2, <1>4, <2>1, NoSteps
<1>5. CASE cmd.name = "superdiags"
  BY <1>2, <1>5, SuperdiagsSteps DEF Steps
<1>6. CASE cmd.name = "cfwrun"
  BY <1>2, <1>6, CfwRunSteps DEF Steps
<1>7. CASE cmd.name = "run"
  BY <1>2, <1>7, RunSteps DEF Steps
<1>8. CASE cmd.name = "haxdfu"
  <2>1. Steps(m) = <<"trigger">> /\ Menu("haxdfu") = {"trigger"}
    BY <1>8 DEF Steps, Menu
  <2>2. QED
    BY <1>2, <1>8, <2>1, OneStep
<1>9. QED
  BY <1>1, <1>3, <1>4, <1>5, <1>6, <1>7, <1>8 DEF Names

(* The step a command is at.                                                *)
LEMMA AtStep ==
  ASSUME Shape, Step # "none"
  PROVE  /\ Running /\ todo # <<>> /\ Step = Head(todo) /\ Step \in Left
         /\ Step \in Menu(cmd.name) \cup {"open"}
         /\ Step # "open" => Opened /\ Step \in Menu(cmd.name)
         /\ \A t \in Left : t # Step => Rank(cmd.name, Step) < Rank(cmd.name, t)
<1>1. Running /\ todo # <<>> /\ Step = Head(todo)
  BY DEF Step, Running
<1>2. /\ todo \in Seq(Menu(cmd.name) \cup {"open"}) /\ Ordered(cmd.name, todo)
      /\ "open" \in Left => Left \subseteq {"open"}
  BY <1>1 DEF Shape
<1> DEFINE S == Menu(cmd.name) \cup {"open"}
<1>3. todo \in Seq(S)
  BY <1>2
<1> HIDE DEF S
<1>4. /\ Head(todo) \in S /\ Head(todo) \in Elems(todo)
      /\ Elems(todo) = {Head(todo)} \cup Elems(Tail(todo))
      /\ \A t \in Elems(Tail(todo)) : Rank(cmd.name, Head(todo)) < Rank(cmd.name, t)
  BY <1>1, <1>2, <1>3, TailLeaves
<1>5. Step # "open" => "open" \notin Left
  BY <1>1, <1>2, <1>4 DEF Left
<1>6. \A t \in Left : t # Step => Rank(cmd.name, Step) < Rank(cmd.name, t)
  BY <1>1, <1>4 DEF Left
<1>7. QED
  BY <1>1, <1>4, <1>5, <1>6 DEF Opened, Left, S

(* Its step done, a command has those after it left.                        *)
LEMMA StepDone ==
  ASSUME Shape, Step # "none", Step # "open",
         todo' = Tail(todo), UNCHANGED <<cmd, result>>
  PROVE  /\ Shape' /\ Opened' /\ Left = {Step} \cup Left' /\ Step \notin Left'
         /\ \A t \in Left' : Rank(cmd.name, Step) < Rank(cmd.name, t) /\ t \in Menu(cmd.name)
<1>1. Running /\ todo # <<>> /\ Step = Head(todo) /\ "open" \notin Left
  BY AtStep DEF Opened
<1>2. /\ todo \in Seq(Menu(cmd.name) \cup {"open"}) /\ Ordered(cmd.name, todo)
      /\ cmd \in Commands
  BY <1>1 DEF Shape
<1> DEFINE S == Menu(cmd.name) \cup {"open"}
<1>3. todo \in Seq(S)
  BY <1>2
<1> HIDE DEF S
<1>4. /\ Tail(todo) \in Seq(S) /\ Ordered(cmd.name, Tail(todo))
      /\ Elems(todo) = {Head(todo)} \cup Elems(Tail(todo))
      /\ \A t \in Elems(Tail(todo)) : Rank(cmd.name, Head(todo)) < Rank(cmd.name, t)
      /\ \A t \in Elems(todo) : t \in S
  BY <1>1, <1>2, <1>3, TailLeaves
<1>5. /\ todo' \in Seq(Menu(cmd.name) \cup {"open"}) /\ Ordered(cmd.name, todo')
      /\ Left = {Step} \cup Elems(todo')
      /\ \A t \in Elems(todo') : Rank(cmd.name, Step) < Rank(cmd.name, t)
      /\ \A t \in Left : t \in Menu(cmd.name) \cup {"open"}
  BY <1>1, <1>4 DEF Left, S
<1>6. Left' = Elems(todo')
  BY DEF Left, Elems
<1>7. Step \notin Left'
  <2>1. Rank(cmd.name, Step) \in Nat
    BY DEF Rank
  <2>2. QED
    BY <1>5, <1>6, <2>1
<1>8. Running' /\ "open" \notin Left'
  BY <1>1, <1>5, <1>6 DEF Running
<1>9. Shape'
  BY <1>2, <1>5, <1>8 DEF Shape, Ordered
<1>10. QED
  BY <1>1, <1>5, <1>6, <1>7, <1>8, <1>9 DEF Opened

(* What a step that concerns other things leaves as it was.                 *)
LEMMA RestoredKept ==
  ASSUME Shape, Restored, Step # "none", Step # "open",
         todo' = Tail(todo), UNCHANGED <<cmd, result, desc, override, flash>>,
         Step \notin {"version", "get", "repartition", "bootloader", "firmware"}
  PROVE  Restored'
<1>1. Opened /\ Left = {Step} \cup Left'
  BY AtStep, StepDone
<1>2. QED
  BY <1>1 DEF Restored, flash, HasBootloader

LEMMA SentKept ==
  ASSUME Shape, Sent, Step # "none", Step # "open",
         todo' = Tail(todo), UNCHANGED <<cmd, result, took>>,
         Step \notin {"sendFirst", "sendNext", "read", "pack"}
  PROVE  Sent'
<1>1. Opened /\ Left = {Step} \cup Left'
  BY AtStep, StepDone
<1>2. QED
  BY <1>1 DEF Sent

LEMMA TrustedKept ==
  ASSUME Shape, Trusted, Step # "none", Step # "open",
         todo' = Tail(todo), UNCHANGED <<cmd, result, boot, mode, trusting, live>>,
         Step # "trigger"
  PROVE  Trusted'
<1>1. Opened /\ Left = {Step} \cup Left'
  BY AtStep, StepDone
<1>2. QED
  BY <1>1 DEF Trusted

-----------------------------------------------------------------------------
(* Every step keeps the invariant.                                          *)

(* A command that gives up claims nothing.                                  *)
LEMMA GivesUp ==
  ASSUME CommandsInv, cmd' = cmd, result' \notin {"running", "ok"}, ~refused'
  PROVE  CommandsInv'
BY DEF CommandsInv, Shape, Restored, Sent, Trusted, NothingRefused, OkMeansDone,
       Running, Opened

LEMMA RefusedNone == CommandsInv => ~refused
BY DEF CommandsInv, NothingRefused

LEMMA StartStep ==
  ASSUME CommandsInv, NEW c \in Commands, Start(c)
  PROVE  CommandsInv'
<1>1. /\ cmd' = c /\ todo' = <<"open">> /\ result' = "running" /\ override' = "current"
      /\ refused' = refused
  BY DEF Start
<1> DEFINE S == Menu(cmd'.name) \cup {"open"}
<1>2. "open" \in S
  OBVIOUS
<1> HIDE DEF S
<1>3. <<"open">> \in Seq(S) /\ Ordered(cmd'.name, <<"open">>) /\ Elems(<<"open">>) = {"open"}
  BY <1>2, OneStep
<1>4. Left' = {"open"}
  BY <1>1, <1>3 DEF Left, Elems
<1>5. Shape'
  BY <1>1, <1>3, <1>4 DEF Shape, Ordered, S, Menu
<1>6. ~Opened'
  BY <1>4 DEF Opened
<1>7. Restored' /\ Sent' /\ Trusted'
  BY <1>6 DEF Restored, Sent, Trusted
<1>8. NothingRefused' /\ OkMeansDone'
  BY <1>1 DEF CommandsInv, NothingRefused, OkMeansDone, Running
<1>9. QED
  BY <1>5, <1>7, <1>8 DEF CommandsInv

LEMMA OpenStep ==
  ASSUME CommandsInv, Open
  PROVE  CommandsInv'
<1>1. /\ Step = "open" /\ Opens(mode) /\ todo' = Steps(mode) /\ desc' = SeenAs(kind, mode)
      /\ UNCHANGED <<device, cmd, result, override>>
  BY DEF Open
<1>2. Running /\ cmd \in Commands /\ Shape
  BY <1>1, AtStep DEF CommandsInv, Shape
<1>3. /\ Steps(mode) \in Seq(Menu(cmd.name)) /\ Ordered(cmd.name, Steps(mode))
      /\ "open" \notin Menu(cmd.name)
      /\ cmd.name # "restore" => Elems(Steps(mode)) = Menu(cmd.name)
      /\ cmd.name = "restore" /\ cmd.version # "list" =>
           /\ {"version", "get", "firmware"} \subseteq Elems(Steps(mode))
           /\ cmd.full => "repartition" \in Elems(Steps(mode))
           /\ cmd.full /\ HasBootloader(SeenAs(kind, mode)) =>
                "bootloader" \in Elems(Steps(mode))
  BY <1>2, StepsOrdered
<1>4. Left' = Elems(Steps(mode))
  BY <1>1 DEF Left, Elems
<1>5. "open" \notin Left'
  <2>1. Elems(Steps(mode)) \subseteq Menu(cmd.name)
    BY <1>3, ElemsIn
  <2>2. QED
    BY <2>1, <1>3, <1>4
<1>6. Shape'
  <2>1. todo' \in Seq(Menu(cmd.name) \cup {"open"})
    BY <1>1, <1>3
  <2>2. QED
    BY <1>1, <1>2, <1>3, <1>5, <2>1 DEF Shape, Ordered
<1>7. Restored'
  BY <1>1, <1>3, <1>4 DEF Restored, HasBootloader
<1>8. cmd.name # "restore" => Left' = Menu(cmd.name)
  BY <1>3, <1>4
<1>9. Sent'
  BY <1>1, <1>8 DEF Sent, Menu
<1>10. Trusted'
  <2>1. cmd.name # "restore" => mode = "DFU" /\ boot = "none" /\ "trigger" \in Left'
    <3>1. cmd.name \in Names
      BY <1>2, CommandsAssumption
    <3>2. QED
      BY <1>1, <1>8, <3>1 DEF Opens, Ready, Menu, Names
  <2>2. QED
    BY <1>1, <2>1 DEF Trusted, device
<1>11. NothingRefused' /\ OkMeansDone'
  BY <1>1, <1>2 DEF CommandsInv, NothingRefused, OkMeansDone, Running, device
<1>12. QED
  BY <1>6, <1>7, <1>9, <1>10, <1>11 DEF CommandsInv

(* Success is claimed when no step is left.                                 *)
LEMMA ReturnStep ==
  ASSUME CommandsInv, Return
  PROVE  CommandsInv'
<1>1. /\ Running /\ todo = <<>> /\ result' = "ok" /\ UNCHANGED <<device, cmd, desc, override>>
  BY DEF Return, Exit, Running
<1>2. Left = {}
  BY <1>1, NoSteps DEF Left, Elems
<1>3. Opened
  BY <1>1, <1>2 DEF Opened
<1>4. OkMeansDone'
  BY <1>1, <1>2, <1>3 DEF CommandsInv, Restored, Sent, OkMeansDone, device, flash, HasBootloader
<1>5. ~Running' /\ ~Opened'
  BY <1>1 DEF Running, Opened
<1>6. QED
  BY <1>1, <1>4, <1>5
     DEF CommandsInv, Shape, Restored, Sent, Trusted, NothingRefused, device

(* A step that concerns neither the device nor the files.                   *)
LEMMA QuietStep ==
  ASSUME CommandsInv, Step # "none", Step # "open", Continue,
         UNCHANGED <<device, override>>,
         Step \notin {"version", "get", "repartition", "bootloader", "firmware",
                      "sendFirst", "sendNext", "read", "pack", "trigger"}
  PROVE  CommandsInv'
<1>1. /\ todo' = Tail(todo) /\ UNCHANGED <<cmd, result, desc, live, override>>
      /\ UNCHANGED <<boot, mode, trusting, took, flash, refused>>
  BY DEF Continue, device
<1>2. Shape /\ Restored /\ Sent /\ Trusted
  BY DEF CommandsInv
<1>3. Shape' /\ Restored' /\ Sent' /\ Trusted'
  BY <1>1, <1>2, StepDone, RestoredKept, SentKept, TrustedKept
<1>4. NothingRefused' /\ OkMeansDone'
  BY <1>1, <1>2, AtStep DEF CommandsInv, NothingRefused, OkMeansDone, Running
<1>5. QED
  BY <1>3, <1>4 DEF CommandsInv

LEMMA GiveUpStep ==
  ASSUME CommandsInv, Aborts \/ (Exit("killed") /\ UNCHANGED override), ~refused'
  PROVE  CommandsInv'
BY GivesUp, RefusedNone DEF Aborts, Exit

LEMMA VersionStep ==
  ASSUME CommandsInv, Version
  PROVE  CommandsInv'
<1>1. /\ Step = "version" /\ todo' = Tail(todo) /\ override' = cmd.version
      /\ UNCHANGED <<cmd, result, desc, live>>
      /\ UNCHANGED <<boot, mode, trusting, took, part, bl, fw, flash, refused>>
  BY DEF Version, Continue, device, flash
<1>2. Shape /\ Restored /\ Sent /\ Trusted
  BY DEF CommandsInv
<1>3. cmd.name = "restore"
  <2>1. cmd.name \in Names /\ "version" \in Menu(cmd.name)
    BY <1>1, <1>2, AtStep, CommandsAssumption DEF Shape
  <2>2. QED
    BY <2>1 DEF Names, Menu
<1>4. Shape' /\ Left = {"version"} \cup Left' /\ Opened
  BY <1>1, <1>2, StepDone, AtStep
<1>5. Sent' /\ Trusted'
  BY <1>1, <1>2, SentKept, TrustedKept
<1>6. \A t \in {"get", "firmware", "repartition", "bootloader"} : t \in Left <=> t \in Left'
  BY <1>4
<1>7. Restored'
  BY <1>1, <1>2, <1>4, <1>6 DEF Restored, HasBootloader
<1>8. NothingRefused' /\ OkMeansDone'
  BY <1>1, <1>3, <1>4 DEF CommandsInv, NothingRefused, OkMeansDone, Running, Opened
<1>9. QED
  BY <1>4, <1>5, <1>7, <1>8 DEF CommandsInv

(* A restore gets its firmware only by a release that there is.             *)
LEMMA GetStep ==
  ASSUME CommandsInv, GetFirmware
  PROVE  CommandsInv'
<1>1. Step = "get" /\ UNCHANGED device
  BY DEF GetFirmware
<1>2. CASE override # "bogus" /\ GoesOn
  <2>1. /\ todo' = Tail(todo)
        /\ UNCHANGED <<cmd, result, desc, live, override>>
        /\ UNCHANGED <<boot, mode, trusting, took, part, bl, fw, flash, refused>>
    BY <1>1, <1>2 DEF GoesOn, Continue, device, flash
  <2>2. Shape /\ Restored /\ Sent /\ Trusted
    BY DEF CommandsInv
  <2>3. /\ Shape' /\ Left = {"get"} \cup Left' /\ Opened
        /\ \A t \in Left : t # "get" => Rank(cmd.name, "get") < Rank(cmd.name, t)
    BY <1>1, <2>1, <2>2, StepDone, AtStep
  <2>4. "version" \notin Left
    BY <2>3 DEF Rank
  <2>5. Sent' /\ Trusted'
    BY <1>1, <2>1, <2>2, SentKept, TrustedKept
  <2>6. Restored'
    <3>1. cmd.name = "restore" /\ cmd.version # "list" => cmd.version \in Releases
      BY <1>2, <2>2, <2>3, <2>4, CommandsAssumption DEF Restored, Shape
    <3>2. QED
      BY <2>1, <2>2, <2>3, <3>1 DEF Restored, HasBootloader
  <2>7. NothingRefused' /\ OkMeansDone'
    BY <2>1, <2>3 DEF CommandsInv, NothingRefused, OkMeansDone, Running, Opened
  <2>8. QED
    BY <2>3, <2>5, <2>6, <2>7 DEF CommandsInv
<1>3. CASE Aborts
  BY <1>1, <1>3, GiveUpStep, RefusedNone DEF device
<1>4. QED
  BY <1>2, <1>3 DEF GetFirmware

(* A file that is missing, or no image, ends the command.                   *)
LEMMA FileStep ==
  ASSUME CommandsInv, ReadFile \/ Pack
  PROVE  CommandsInv'
<1>1. /\ Step \in {"read", "pack"} /\ UNCHANGED device /\ (GoesOn \/ Aborts)
  BY DEF ReadFile, Pack
<1>2. CASE GoesOn
  <2>1. /\ todo' = Tail(todo) /\ UNCHANGED <<cmd, result, desc, live, override>>
        /\ UNCHANGED <<boot, mode, trusting, took, flash, refused>>
    BY <1>1, <1>2 DEF GoesOn, Continue, device
  <2>2. Shape /\ Restored /\ Sent /\ Trusted
    BY DEF CommandsInv
  <2>3. Shape' /\ Restored' /\ Trusted'
    BY <1>1, <2>1, <2>2, StepDone, RestoredKept, TrustedKept
  <2>4. Left = {Step} \cup Left' /\ Opened
    BY <1>1, <2>1, <2>2, StepDone, AtStep
  <2>5. /\ Step = "read" => cmd.file # "missing"
        /\ Step = "pack" => cmd.file # "bad"
    BY <1>1, <1>2 DEF ReadFile, Pack, GoesOn, Aborts, Continue, Exit, Step
  <2>6. Sent'
    BY <1>1, <2>1, <2>2, <2>4, <2>5 DEF Sent
  <2>7. NothingRefused' /\ OkMeansDone'
    BY <2>1, <2>4 DEF CommandsInv, NothingRefused, OkMeansDone, Running, Opened
  <2>8. QED
    BY <2>3, <2>6, <2>7 DEF CommandsInv
<1>3. CASE Aborts
  BY <1>1, <1>3, GiveUpStep, RefusedNone DEF device
<1>4. QED
  BY <1>1, <1>2, <1>3

(* Past the trigger, and on the same handle, the device trusts the command. *)
LEMMA TriggerStep ==
  ASSUME CommandsInv, Trigger
  PROVE  CommandsInv'
<1>1. /\ Step = "trigger" /\ UNCHANGED <<mode, boot, flash, refused, took>>
      /\ (trusting' = TRUE /\ GoesOn) \/ Aborts
  BY DEF Trigger, Works, Fails
<1>2. CASE trusting' = TRUE /\ GoesOn
  <2>1. /\ todo' = Tail(todo) /\ UNCHANGED <<cmd, result, desc, live, override>>
    BY <1>1, <1>2 DEF GoesOn, Continue
  <2>2. Shape /\ Restored /\ Sent /\ Trusted
    BY DEF CommandsInv
  <2>3. Shape' /\ Restored' /\ Sent'
    BY <1>1, <2>1, <2>2, StepDone, RestoredKept, SentKept
  <2>4. Opened
    BY <1>1, <2>2, AtStep
  <2>5. Trusted'
    BY <1>1, <1>2, <2>1, <2>2, <2>4 DEF Trusted
  <2>6. NothingRefused' /\ OkMeansDone'
    BY <1>1, <2>1, <2>4 DEF CommandsInv, NothingRefused, OkMeansDone, Running, Opened
  <2>7. QED
    BY <2>3, <2>5, <2>6 DEF CommandsInv
<1>3. CASE Aborts
  BY <1>1, <1>3, GiveUpStep, RefusedNone
<1>4. QED
  BY <1>1, <1>2, <1>3

(* A live device boots what a command sends it.                             *)
LEMMA Accepted ==
  ASSUME CommandsInv, Step \in {"sendFirst", "sendNext"}, live
  PROVE  Boots
<1>1. Opened /\ \A t \in Left : t # Step => Rank(cmd.name, Step) < Rank(cmd.name, t)
  BY AtStep DEF CommandsInv
<1>2. "trigger" \notin Left
  BY <1>1 DEF Rank
<1>3. CASE cmd.name = "restore"
  BY <1>3 DEF Boots, IsSigned
<1>4. CASE cmd.name # "restore"
  BY <1>1, <1>2, <1>4 DEF CommandsInv, Trusted, Boots
<1>5. QED
  BY <1>3, <1>4

(* A missed attempt is never a refusal.                                     *)
LEMMA Missed ==
  ASSUME CommandsInv, Step \in {"sendFirst", "sendNext"}, Misses
  PROVE  ~refused' /\ (Taken \/ UNCHANGED <<boot, took>>)
<1>1. live => Boots
  BY Accepted
<1>2. ~refused
  BY RefusedNone
<1>3. QED
  BY <1>1, <1>2 DEF Misses, Taken, Works

(* What an image is for a command other than restore.                       *)
LEMMA ImageOf ==
  ASSUME CommandsInv, Step \in {"sendFirst", "sendNext"}
  PROVE  /\ cmd.name # "restore" => Image \in {"patchedWTF", "App"}
         /\ Step = "sendNext" /\ cmd.name # "restore" => Image = "App"
         /\ Step = "sendFirst" /\ cmd.name = "run" => Image = "App"
         /\ cmd.name \in {"superdiags", "cfwrun"} /\ Step = "sendFirst" => "sendNext" \in Left
         /\ Step = "sendNext" => cmd.name \in {"superdiags", "cfwrun", "restore"}
<1>1. /\ Opened /\ Step \in Menu(cmd.name) /\ cmd.name \in Names
      /\ \A t \in Left : t # Step => Rank(cmd.name, Step) < Rank(cmd.name, t)
      /\ Step \in Left
  BY AtStep, CommandsAssumption DEF CommandsInv, Shape
<1>2. Step = "sendNext" => cmd.name \in {"superdiags", "cfwrun", "restore"}
  BY <1>1 DEF Menu, Names
<1>3. cmd.name \in {"superdiags", "cfwrun"} /\ Step = "sendFirst" => "sendNext" \in Left
  BY <1>1 DEF CommandsInv, Sent
<1>4. QED
  BY <1>2, <1>3 DEF Image

LEMMA SendFirstStep ==
  ASSUME CommandsInv, SendFirst
  PROVE  CommandsInv'
<1>1. Step = "sendFirst" /\ UNCHANGED <<mode, trusting, flash>>
  BY DEF SendFirst
<1>2. CASE Succeeds /\ GoesOn
  <2>1. /\ todo' = Tail(todo) /\ UNCHANGED <<cmd, result, desc, live, override, refused>>
        /\ boot' = Image /\ took' = Image
    BY <1>1, <1>2 DEF GoesOn, Continue, Succeeds, Taken
  <2>2. Shape /\ Restored /\ Sent /\ Trusted
    BY DEF CommandsInv
  <2>3. Shape' /\ Restored'
    BY <1>1, <2>1, <2>2, StepDone, RestoredKept
  <2>4. /\ Opened /\ Left = {Step} \cup Left' /\ Step \notin Left'
        /\ \A t \in Left' : Rank(cmd.name, Step) < Rank(cmd.name, t) /\ t \in Menu(cmd.name)
    BY <1>1, <2>1, <2>2, StepDone, AtStep
  <2>5. /\ cmd.name # "restore" => Image \in {"patchedWTF", "App"}
        /\ cmd.name = "run" => Image = "App"
        /\ cmd.name \in {"superdiags", "cfwrun"} => "sendNext" \in Left
    BY <1>1, ImageOf
  <2>6. cmd.name = "run" => Left' = {}
    BY <1>1, <2>4 DEF Menu, Rank
  <2>7. Sent'
    BY <1>1, <2>1, <2>2, <2>4, <2>5, <2>6 DEF Sent
  <2>8. Trusted'
    BY <1>1, <2>1, <2>2, <2>4, <2>5 DEF Trusted
  <2>9. NothingRefused' /\ OkMeansDone'
    BY <2>1, <2>4 DEF CommandsInv, NothingRefused, OkMeansDone, Running, Opened
  <2>10. QED
    BY <2>3, <2>7, <2>8, <2>9 DEF CommandsInv
<1>3. CASE Misses /\ Aborts
  BY <1>1, <1>3, GiveUpStep, Missed
<1>4. QED
  BY <1>2, <1>3 DEF SendFirst

LEMMA SendNextStep ==
  ASSUME CommandsInv, SendNext
  PROVE  CommandsInv'
<1>1. Step = "sendNext" /\ UNCHANGED <<mode, trusting, flash>>
  BY DEF SendNext
<1>2. Shape /\ Restored /\ Sent /\ Trusted
  BY DEF CommandsInv
<1>3. /\ Opened /\ Step \in Left
      /\ cmd.name # "restore" => Image = "App"
      /\ cmd.name \in {"superdiags", "cfwrun", "restore"}
  BY <1>1, <1>2, AtStep, ImageOf
<1>4. CASE Succeeds /\ GoesOn
  <2>1. /\ todo' = Tail(todo) /\ UNCHANGED <<cmd, result, desc, live, override, refused>>
        /\ boot' = Image /\ took' = Image
    BY <1>1, <1>4 DEF GoesOn, Continue, Succeeds, Taken
  <2>2. Shape' /\ Restored'
    BY <1>1, <2>1, <1>2, StepDone, RestoredKept
  <2>3. /\ Left = {Step} \cup Left'
        /\ \A t \in Left' : Rank(cmd.name, Step) < Rank(cmd.name, t) /\ t \in Menu(cmd.name)
    BY <1>1, <2>1, <1>2, StepDone
  <2>4. cmd.name # "restore" => Left' = {}
    BY <1>1, <1>3, <2>3 DEF Menu, Rank
  <2>5. Sent'
    BY <1>1, <1>2, <1>3, <2>1, <2>3, <2>4 DEF Sent
  <2>6. Trusted'
    BY <1>1, <1>2, <1>3, <2>1, <2>3 DEF Trusted
  <2>7. NothingRefused' /\ OkMeansDone'
    BY <1>3, <2>1 DEF CommandsInv, NothingRefused, OkMeansDone, Running, Opened
  <2>8. QED
    BY <2>2, <2>5, <2>6, <2>7 DEF CommandsInv
<1>5. CASE Misses /\ UNCHANGED <<cmd, todo, desc, live, result, override>>
  <2>1. ~refused' /\ ((boot' = Image /\ took' = Image) \/ UNCHANGED <<boot, took>>)
    BY <1>1, <1>5, Missed DEF Taken
  <2>2. Left' = Left
    BY <1>5 DEF Left, Elems
  <2>3. Shape' /\ Restored'
    BY <1>1, <1>2, <1>5, <2>2 DEF Shape, Ordered, Restored, Running, Opened, flash, HasBootloader
  <2>4. Sent'
    BY <1>1, <1>2, <1>3, <1>5, <2>2 DEF Sent, Opened, Running
  <2>5. Trusted'
    BY <1>1, <1>2, <1>3, <1>5, <2>1, <2>2 DEF Trusted, Opened, Running
  <2>6. NothingRefused' /\ OkMeansDone'
    BY <1>3, <1>5, <2>1 DEF CommandsInv, NothingRefused, OkMeansDone, Running, Opened
  <2>7. QED
    BY <2>3, <2>4, <2>5, <2>6 DEF CommandsInv
<1>6. CASE Misses /\ Aborts
  BY <1>1, <1>6, GiveUpStep, Missed
<1>7. QED
  BY <1>4, <1>5, <1>6 DEF SendNext

(* What comes up as WTF after a send is the WTF that was patched.           *)
LEMMA SwitchedStep ==
  ASSUME CommandsInv, Switched
  PROVE  CommandsInv'
<1>1. /\ Step \in {"waitWTF", "waitDisk"} /\ Ready(Awaited) /\ todo' = Tail(todo) /\ live'
      /\ UNCHANGED <<cmd, result, desc, override>>
      /\ UNCHANGED <<boot, mode, trusting, took, flash, refused>>
  BY DEF Switched, Visible, device
<1>2. Shape /\ Restored /\ Sent /\ Trusted
  BY DEF CommandsInv
<1>3. Shape' /\ Restored' /\ Sent'
  BY <1>1, <1>2, StepDone, RestoredKept, SentKept
<1>4. Opened /\ Step \in Menu(cmd.name) /\ cmd.name \in Names
  BY <1>1, <1>2, AtStep, CommandsAssumption DEF Shape
<1>5. cmd.name # "restore" => mode = "WTF"
  BY <1>1, <1>4 DEF Names, Menu, Ready, Awaited
<1>6. Trusted'
  BY <1>1, <1>2, <1>4, <1>5 DEF Trusted
<1>7. NothingRefused' /\ OkMeansDone'
  BY <1>1, <1>4 DEF CommandsInv, NothingRefused, OkMeansDone, Running, Opened
<1>8. QED
  BY <1>3, <1>6, <1>7 DEF CommandsInv

(* Only a restore writes the flash.                                         *)
LEMMA WriteStep ==
  ASSUME CommandsInv, Repartition \/ WriteBootloader \/ WriteFirmware
  PROVE  CommandsInv'
<1>1. /\ Step \in {"repartition", "bootloader", "firmware"}
      /\ UNCHANGED <<mode, boot, trusting, refused, took>> /\ (GoesOn \/ Aborts)
  BY DEF Repartition, WriteBootloader, WriteFirmware, Writes
<1>2. CASE GoesOn
  <2>1. /\ todo' = Tail(todo) /\ UNCHANGED <<cmd, result, desc, live, override>>
        /\ UNCHANGED <<boot, mode, trusting, took, refused>>
    BY <1>1, <1>2 DEF GoesOn, Continue
  <2>2. Shape /\ Restored /\ Sent /\ Trusted
    BY DEF CommandsInv
  <2>3. Shape' /\ Sent' /\ Trusted'
    BY <1>1, <2>1, <2>2, StepDone, SentKept, TrustedKept
  <2>4. /\ Left = {Step} \cup Left' /\ Opened /\ Step \notin Left'
        /\ \A t \in Left : t # Step => Rank(cmd.name, Step) < Rank(cmd.name, t)
        /\ \A t \in Left' : t \in Menu(cmd.name)
        /\ Step \in Menu(cmd.name) /\ cmd.name \in Names
    BY <1>1, <2>1, <2>2, StepDone, AtStep, CommandsAssumption DEF Shape
  <2>5. cmd.name = "restore"
    BY <1>1, <2>4 DEF Names, Menu
  <2>6. "version" \notin Left /\ "get" \notin Left
    BY <1>1, <2>4 DEF Rank
  <2>7. cmd.version # "list" => override = cmd.version
    BY <2>2, <2>4, <2>5, <2>6 DEF Restored
  <2>8. ASSUME Step = "repartition" PROVE Restored'
    <3>1. part' = override /\ bl' = bl /\ fw' = "torn"
      BY <1>2, <2>8 DEF Repartition, WriteBootloader, WriteFirmware, Writes, Flash, GoesOn,
                        Aborts, Continue, Exit, Step
    <3>2. cmd.version # "list" => "firmware" \in Left'
      BY <2>2, <2>4, <2>5, <2>8 DEF Restored
    <3>3. QED
      BY <2>1, <2>2, <2>4, <2>7, <2>8, <3>1, <3>2 DEF Restored, HasBootloader
  <2>9. ASSUME Step = "bootloader" PROVE Restored'
    <3>1. part' = part /\ bl' = override /\ fw' = fw
      BY <1>2, <2>9 DEF Repartition, WriteBootloader, WriteFirmware, Writes, Flash, GoesOn,
                        Aborts, Continue, Exit, Step
    <3>2. QED
      BY <2>1, <2>2, <2>4, <2>7, <2>9, <3>1 DEF Restored, HasBootloader
  <2>10. ASSUME Step = "firmware" PROVE Restored'
    <3>1. part' = part /\ bl' = bl /\ fw' = override
      BY <1>2, <2>10 DEF Repartition, WriteBootloader, WriteFirmware, Writes, Flash, GoesOn,
                         Aborts, Continue, Exit, Step
    <3>2. Left' \subseteq {"finalize"}
      BY <2>4, <2>5, <2>10 DEF Menu, Rank
    <3>3. QED
      BY <2>1, <2>2, <2>4, <2>7, <2>10, <3>1, <3>2 DEF Restored, HasBootloader
  <2>11. Restored'
    BY <1>1, <2>8, <2>9, <2>10
  <2>12. NothingRefused' /\ OkMeansDone'
    BY <2>1, <2>4 DEF CommandsInv, NothingRefused, OkMeansDone, Running, Opened
  <2>13. QED
    BY <2>3, <2>11, <2>12 DEF CommandsInv
<1>3. CASE Aborts
  <2>1. ~refused'
    BY RefusedNone DEF Repartition, WriteBootloader, WriteFirmware, Writes
  <2>2. QED
    BY <1>3, <2>1, GiveUpStep
<1>4. QED
  BY <1>1, <1>2, <1>3

LEMMA FinalizeStep ==
  ASSUME CommandsInv, Finalize
  PROVE  CommandsInv'
<1>1. /\ Step = "finalize" /\ UNCHANGED <<mode, trusting, flash, refused, took>>
      /\ (GoesOn \/ Aborts)
  BY DEF Finalize
<1>2. CASE GoesOn
  <2>1. /\ todo' = Tail(todo) /\ UNCHANGED <<cmd, result, desc, live, override>>
    BY <1>2 DEF GoesOn, Continue
  <2>2. Shape /\ Restored /\ Sent /\ Trusted
    BY DEF CommandsInv
  <2>3. Shape' /\ Restored' /\ Sent'
    BY <1>1, <2>1, <2>2, StepDone, RestoredKept, SentKept
  <2>4. Opened /\ Step \in Menu(cmd.name) /\ cmd.name \in Names
    BY <1>1, <2>2, AtStep, CommandsAssumption DEF Shape
  <2>5. cmd.name = "restore"
    BY <1>1, <2>4 DEF Names, Menu
  <2>6. Trusted'
    BY <2>1, <2>5 DEF Trusted
  <2>7. NothingRefused' /\ OkMeansDone'
    BY <1>1, <2>1, <2>4 DEF CommandsInv, NothingRefused, OkMeansDone, Running, Opened
  <2>8. QED
    BY <2>3, <2>6, <2>7 DEF CommandsInv
<1>3. CASE Aborts
  <2>1. ~refused'
    BY <1>1, RefusedNone
  <2>2. QED
    BY <1>3, <2>1, GiveUpStep
<1>4. QED
  BY <1>1, <1>2, <1>3

(* A device that comes up again is not the one the handle is for.           *)
LEMMA DeviceStep ==
  ASSUME CommandsInv, Enumerate \/ \E m \in {"Off", "DFU", "Disk", "OS"} : Reset(m)
  PROVE  CommandsInv'
<1>1. /\ live' = FALSE /\ boot' = "none"
      /\ UNCHANGED <<flash, refused, took, cmd, todo, desc, result, override>>
  BY DEF Enumerate, Reset
<1>2. Left' = Left
  BY <1>1 DEF Left, Elems
<1>3. Shape' /\ Restored' /\ Sent'
  BY <1>1, <1>2
     DEF CommandsInv, Shape, Ordered, Restored, Sent, Running, Opened, flash, HasBootloader
<1>4. NothingRefused' /\ OkMeansDone'
  BY <1>1 DEF CommandsInv, NothingRefused, OkMeansDone, Running, flash, HasBootloader
<1>5. Trusted'
  <2>1. CASE Enumerate
    <3>1. mode' = (IF boot = "patchedWTF" THEN "WTF" ELSE boot)
            /\ trusting' = (boot = "patchedWTF") /\ boot # "none"
      BY <2>1 DEF Enumerate
    <3>2. QED
      BY <1>1, <1>2, <3>1 DEF CommandsInv, Trusted, Opened, Running
  <2>2. CASE \E m \in {"Off", "DFU", "Disk", "OS"} : Reset(m)
    <3>1. mode' # "WTF"
      BY <2>2 DEF Reset
    <3>2. QED
      BY <1>1, <1>2, <3>1 DEF Trusted
  <2>3. QED
    BY <2>1, <2>2
<1>6. QED
  BY <1>3, <1>4, <1>5 DEF CommandsInv

(* Neither does a call that hangs do anything.                              *)
LEMMA StillStep ==
  ASSUME CommandsInv, UNCHANGED <<device, cmd, todo, desc, result, live, override>>
  PROVE  CommandsInv'
<1>1. Left' = Left
  BY DEF Left, Elems
<1>2. Shape' /\ Restored' /\ Sent' /\ Trusted'
  BY <1>1 DEF CommandsInv, Shape, Ordered, Restored, Sent, Trusted, Running, Opened,
             device, flash, HasBootloader
<1>3. NothingRefused' /\ OkMeansDone'
  BY DEF CommandsInv, NothingRefused, OkMeansDone, device, flash, HasBootloader
<1>4. QED
  BY <1>2, <1>3 DEF CommandsInv

LEMMA CommandsInit == Init => CommandsInv
<1> SUFFICES ASSUME Init PROVE CommandsInv
  OBVIOUS
<1>1. result = "none" /\ cmd \in Commands /\ ~refused
  BY DEF Init
<1>2. QED
  BY <1>1 DEF CommandsInv, Shape, Restored, Sent, Trusted, NothingRefused,
              OkMeansDone, Running, Opened

LEMMA CommandsNext == CommandsInv /\ [Next]_vars => CommandsInv'
<1> SUFFICES ASSUME CommandsInv, [Next]_vars PROVE CommandsInv'
  OBVIOUS
<1>1. CASE \E c \in Commands : Start(c)
  BY <1>1, StartStep
<1>2. CASE Open
  BY <1>2, OpenStep
<1>3. CASE OpenFails
  BY <1>3, GiveUpStep, RefusedNone DEF OpenFails, device
<1>4. CASE Return
  BY <1>4, ReturnStep
<1>5. CASE Version \/ GetFirmware \/ ReadFile \/ Pack \/ Trigger
  BY <1>5, VersionStep, GetStep, FileStep, TriggerStep
<1>6. CASE GetImage
  <2>1. CASE GoesOn
    BY <1>6, <2>1, QuietStep DEF GetImage, GoesOn
  <2>2. CASE Aborts
    BY <1>6, <2>2, GiveUpStep, RefusedNone DEF GetImage, device
  <2>3. QED
    BY <1>6, <2>1, <2>2 DEF GetImage
<1>7. CASE Clean
  <2>1. CASE GoesOn
    BY <1>7, <2>1, QuietStep DEF Clean, GoesOn
  <2>2. CASE Aborts
    BY <1>7, <2>2, GiveUpStep, RefusedNone DEF Clean, device
  <2>3. QED
    BY <1>7, <2>1, <2>2 DEF Clean
<1>8. CASE SendFirst \/ SendNext \/ Switched
  BY <1>8, SendFirstStep, SendNextStep, SwitchedStep
<1>9. CASE SwitchFails
  BY <1>9, GiveUpStep, RefusedNone DEF SwitchFails, device
<1>10. CASE Information
  BY <1>10, QuietStep DEF Information, GoesOn
<1>11. CASE Repartition \/ WriteBootloader \/ WriteFirmware \/ Finalize
  BY <1>11, WriteStep, FinalizeStep
<1>12. CASE Enumerate \/ \E m \in {"Off", "DFU", "Disk", "OS"} : Reset(m)
  BY <1>12, DeviceStep
<1>13. CASE Killed
  BY <1>13, GiveUpStep, RefusedNone DEF Killed, device
<1>14. CASE Hangs \/ UNCHANGED vars
  BY <1>14, StillStep DEF Hangs, vars, host
<1>15. QED
  BY <1>1, <1>2, <1>3, <1>4, <1>5, <1>6, <1>7, <1>8, <1>9, <1>10, <1>11, <1>12, <1>13, <1>14
     DEF Next, Work

LEMMA CommandsAlways == Spec => []CommandsInv
BY CommandsInit, CommandsNext, PTL DEF Spec

-----------------------------------------------------------------------------
(* The results.                                                             *)

(* No device is ever sent an image that it does not boot: an unsigned one   *)
(* goes only to the DFU that was found to trust, or to the WTF it made      *)
(* boot, whatever resets, kills and commands before left it in.             *)
THEOREM NothingIsRefused == Spec => []NothingRefused
<1>1. CommandsInv => NothingRefused
  BY DEF CommandsInv
<1>2. QED
  BY <1>1, CommandsAlways, PTL

(* A command that returns without an error has done all of its work: one    *)
(* release throughout for a restore, the image of the user booted for the   *)
(* others.                                                                  *)
THEOREM SuccessMeansDone == Spec => []OkMeansDone
<1>1. CommandsInv => OkMeansDone
  BY DEF CommandsInv
<1>2. QED
  BY <1>1, CommandsAlways, PTL
=============================================================================
