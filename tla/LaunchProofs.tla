----------------------------- MODULE LaunchProofs -----------------------------
(***************************************************************************)
(* How the two programs start and stop, for command lines of any length    *)
(* and with any words, whatever calls fail.                                *)
(***************************************************************************)
EXTENDS Launch, SequenceTheorems, TLAPS

----------------------------------------------------------------------------
(* The invariant behind the properties. *)
Before == {"options", "arguments", "address", "socket"}
Ready  == {"name", "output", "loop"}
Past   == {"close", "success", "failure", "crashed"}

Shape ==
    /\ program \in {"sender", "receiver"} /\ line \in Lines
    /\ optind \in 1 .. Len(line) + 1
    /\ argv \in Seq(Strings) /\ others \in Seq(Strings)
    /\ Len(argv) + Len(others) <= 2 * Len(line)
    /\ pc = "options" => Len(argv) + Len(others) = optind - 1
    /\ {file_d, receiver_fd, socket_fd} \subseteq Fd \cup {-1}
    /\ file_name \in 0 .. Len(argv) /\ bytes \in Uninitialised
    /\ fds \in [Fd -> Description \cup {NULL}]
    /\ port \in Int
    /\ pc \in Before \cup Ready \cup Past

(* Where the socket is bound or connected. *)
Named ==
    /\ pc \in Before \cup {"name"} => endpoint = NULL
    /\ pc \in {"output", "loop"} =>
          endpoint = IF port > 0 THEN [host |-> host, port |-> htons(port)] ELSE NULL
    /\ endpoint # NULL => endpoint.port \in 0 .. UShortRange - 1

UsedOpen == Used = -1 \/ fds[Used] \notin {NULL, Socket}

(* One descriptor at most is open on a socket, and it is not the file's.    *)
Descriptors ==
    /\ pc \in Before \cup Past => \A d \in Fd : fds[d] # Socket
    /\ pc \in Ready => socket_fd \in Fd /\ \A d \in Fd : fds[d] = Socket <=> d = socket_fd
    /\ pc \notin Past => fds[1] = Output
    /\ program = "sender" /\ pc \notin Past /\ fds[0] = Stdin => UsedOpen
    /\ program = "receiver" /\ pc = "loop" => UsedOpen

LaunchInv == Shape /\ Named /\ Descriptors

(* On a command line without option.  The receiver that takes the bytes of  *)
(* malloc for a name looks for the host beyond its arguments.               *)
Standard(h, p) ==
    /\ pc = "options" => optind = 1 /\ argv = <<>> /\ others = <<>>
    /\ pc # "options" => argv = <<h, p>>
    /\ file_d = 0 /\ file_name = 0
    /\ pc \in Addressed =>
          IF program = "sender" \/ bytes = EmptyString THEN host = h /\ port = atoi(p)
          ELSE host = NULL /\ pc = "address"
    /\ program = "receiver" /\ pc = "loop" => receiver_fd = 1
    /\ pc = "crashed" => TakesBytesForName

Found(n) ==
    IF program = "receiver" THEN file_name = 2
    ELSE fds[0] = Stdin /\ pc \notin Past =>
            file_d = -1 \/ (file_d \in Fd \ {0} /\ fds[file_d] = File(n))

(* On a command line with a file name. *)
WithName(n, h, p) ==
    /\ pc = "options" =>
          \/ optind = 1 /\ argv = <<>> /\ others = <<>> /\ file_name = 0
          \/ /\ argv = <<"-f", n>> /\ Found(n)
             /\ \/ line = <<h, p, "-f", n>> /\ optind = 5 /\ others = <<h, p>>
                \/ line = <<h, "-f", n, p>> /\ optind = 4 /\ others = <<h>>
                \/ line = <<"-f", n, h, p>> /\ optind = 3 /\ others = <<>>
    /\ pc # "options" => argv = <<"-f", n, h, p>> /\ Found(n)
    /\ pc \in Addressed /\ fds[0] = Stdin => host = h /\ port = atoi(p)
    /\ program = "receiver" /\ pc = "loop" => receiver_fd = -1 \/ fds[receiver_fd] = File(n)
    /\ pc = "crashed" => fds[0] # Stdin

UsageInv ==
    \A h, p \in Words :
        /\ FollowsUsage(h, p) => Standard(h, p)
        /\ \A n \in Words \ {EmptyString} : FollowsUsageWith(n, h, p) => WithName(n, h, p)

----------------------------------------------------------------------------
(* Descriptors and command lines. *)
LEMMA Descriptions ==
    /\ MaxFd \in Nat /\ 0 \in Fd /\ 1 \in Fd /\ -1 \notin Fd /\ Fd \subseteq Int
    /\ {Stdin, Output, Socket} \subseteq Description
    /\ \A n \in Strings : File(n) \in Description /\ File(n) # Stdin /\ File(n) # Output /\ File(n) # Socket
    /\ Stdin # Output /\ Stdin # Socket /\ Output # Socket
    /\ NULL \notin Description
<1>1. MaxFd \in Nat /\ 0 \in Fd /\ 1 \in Fd /\ -1 \notin Fd /\ Fd \subseteq Int
  BY MaxFdAssumption DEF Fd
<1>2. {Stdin, Output, Socket} \subseteq Description /\ \A n \in Strings : File(n) \in Description
  <2>1. PICK e \in Strings : e = EmptyString
    BY LinesAssumption
  <2>2. \A k \in {"stdin", "output", "socket", "file"} : \A n \in Strings : [kind |-> k, name |-> n] \in Description
    BY DEF Description
  <2>3. Stdin \in Description /\ Output \in Description /\ Socket \in Description
    BY <2>1, <2>2 DEF Stdin, Output, Socket
  <2>4. \A n \in Strings : File(n) \in Description
    BY <2>2 DEF File
  <2> QED
    BY <2>3, <2>4
<1>3. /\ Stdin.kind = "stdin" /\ Output.kind = "output" /\ Socket.kind = "socket"
      /\ \A n : File(n).kind = "file"
  BY DEF Stdin, Output, Socket, File
<1> QED
  BY <1>1, <1>2, <1>3, NullAssumption

LEMMA LineWords ==
    ASSUME line \in Lines
    PROVE  /\ line \in Seq(Strings) /\ Len(line) \in Nat /\ DOMAIN line = 1 .. Len(line)
           /\ \A k \in 1 .. Len(line) : line[k] \in Strings
<1>1. line \in Seq(Strings)
  BY LinesAssumption
<1>2. PICK s \in Seq(Strings) : s = line
  BY <1>1
<1>3. Len(s) \in Nat /\ DOMAIN s = 1 .. Len(s) /\ \A k \in 1 .. Len(s) : s[k] \in Strings
  OBVIOUS
<1> QED
  BY <1>2, <1>3

LEMMA NoWords == ASSUME NEW S PROVE <<>> \in Seq(S) /\ Len(<<>>) = 0
  OBVIOUS

LEMMA TwoWords ==
    ASSUME NEW S, NEW a \in S, NEW b \in S
    PROVE  /\ <<a, b>> \in Seq(S) /\ Len(<<a, b>>) = 2 /\ <<a, b>>[1] = a /\ <<a, b>>[2] = b
  OBVIOUS

LEMMA Joined ==
    ASSUME NEW S, NEW s, NEW t, s \in Seq(S), t \in Seq(S)
    PROVE  s \o t \in Seq(S) /\ Len(s \o t) = Len(s) + Len(t) /\ Len(s) \in Nat /\ Len(t) \in Nat
  BY ConcatProperties

(* What getopt passes over. *)
LEMMA Passed ==
    ASSUME NEW s \in Seq(Strings), NEW i \in 1 .. Len(s) + 1, NEW j \in (i - 1) .. Len(s)
    PROVE  /\ SubSeq(s, i, j) \in Seq(Strings) /\ Len(SubSeq(s, i, j)) = (j - i) + 1
           /\ \A k \in 1 .. (j - i) + 1 : SubSeq(s, i, j)[k] = s[i + k - 1]
<1>1. i \in Int /\ j \in Int /\ Len(s) \in Nat
  OBVIOUS
<1>2. \A k \in i .. j : s[k] \in Strings
  <2>1. \A k \in 1 .. Len(s) : s[k] \in Strings
    OBVIOUS
  <2>2. \A k \in i .. j : k \in 1 .. Len(s)
    BY <1>1
  <2> QED
    BY <2>1, <2>2
<1>3. /\ SubSeq(s, i, j) \in Seq(Strings)
      /\ Len(SubSeq(s, i, j)) = IF i <= j THEN j - i + 1 ELSE 0
      /\ \A k \in 1 .. j - i + 1 : SubSeq(s, i, j)[k] = s[i + k - 1]
  BY <1>1, <1>2, SubSeqProperties
<1>4. Len(SubSeq(s, i, j)) = (j - i) + 1
  BY <1>1, <1>3
<1> QED
  BY <1>3, <1>4

----------------------------------------------------------------------------
(* The steps. *)
LEMMA InitLaunch == Init => LaunchInv
<1> SUFFICES ASSUME Init PROVE LaunchInv
  OBVIOUS
<1>1. PICK stdin \in {Stdin, NULL} :
         fds = [d \in Fd |-> IF d = 0 THEN stdin ELSE IF d <= 2 THEN Output ELSE NULL]
  BY DEF Init
<1>2. /\ fds \in [Fd -> Description \cup {NULL}]
      /\ \A d \in Fd : fds[d] # Socket
      /\ fds[1] = Output /\ fds[0] = stdin
  BY <1>1, Descriptions
<1>3. Shape
  <2>1. Len(line) \in Nat /\ 1 \in 1 .. Len(line) + 1
    <3>1. line \in Lines
      BY DEF Init
    <3>2. PICK l \in Nat : l = Len(line)
      BY <3>1, LineWords
    <3> QED
      BY <3>2
  <2>2. argv = <<>> /\ others = <<>>
    BY DEF Init
  <2>3. argv \in Seq(Strings) /\ Len(argv) = 0
    BY <2>2, NoWords
  <2>4. others \in Seq(Strings) /\ Len(others) = 0
    BY <2>2, NoWords
  <2>5. {file_d, receiver_fd, socket_fd} \subseteq Fd \cup {-1} /\ port \in Int /\ optind = 1
        /\ program \in {"sender", "receiver"} /\ line \in Lines /\ file_name = 0 /\ pc = "options"
        /\ bytes \in Uninitialised
    BY Descriptions DEF Init, Uninitialised
  <2>6. /\ Len(argv) + Len(others) <= 2 * Len(line) /\ Len(argv) + Len(others) = optind - 1
        /\ file_name \in 0 .. Len(argv) /\ optind \in 1 .. Len(line) + 1
    BY <2>1, <2>3, <2>4, <2>5
  <2> QED
    BY <1>2, <2>3, <2>4, <2>5, <2>6 DEF Shape, Before
<1>4. Named
  BY DEF Init, Named, Ready, Before
<1>5. Descriptors
  BY <1>2, Descriptions DEF Init, Descriptors, Before, Ready, Past, UsedOpen, Used
<1> QED
  BY <1>3, <1>4, <1>5 DEF LaunchInv

LEMMA GetoptKeeps ==
    ASSUME Shape, NEW k \in 1 .. Len(line), NEW words \in {1, 2}, k + words <= Len(line) + 1,
           getopt(k, words)
    PROVE  /\ pc = "options" /\ optind' \in 1 .. Len(line) + 1
           /\ others' \in Seq(Strings)
           /\ Len(argv) + Len(others') + words = optind' - 1
<1>1. /\ pc = "options" /\ k \in optind .. Len(line)
      /\ others' = others \o SubSeq(line, optind, k - 1) /\ optind' = k + words
  BY DEF getopt, IsNextOption
<1>2. /\ line \in Seq(Strings) /\ Len(line) \in Nat
      /\ optind \in 1 .. Len(line) + 1 /\ argv \in Seq(Strings) /\ others \in Seq(Strings)
      /\ Len(argv) + Len(others) = optind - 1
  BY <1>1, LineWords DEF Shape
<1>3. PICK t : t = SubSeq(line, optind, k - 1)
  OBVIOUS
<1>4. t \in Seq(Strings) /\ Len(t) = k - optind
  <2>1. PICK s \in Seq(Strings) : s = line
    BY <1>2
  <2>2. PICK i \in 1 .. Len(s) + 1 : i = optind
    BY <1>2, <2>1
  <2>3. k - 1 \in (i - 1) .. Len(s)
    BY <1>1, <1>2, <2>1, <2>2
  <2>4. SubSeq(s, i, k - 1) \in Seq(Strings) /\ Len(SubSeq(s, i, k - 1)) = ((k - 1) - i) + 1
    BY <2>3, Passed
  <2>5. ((k - 1) - i) + 1 = k - i
    BY <1>2, <2>1
  <2> QED
    BY <1>3, <2>1, <2>2, <2>4, <2>5
<1>5. others' \in Seq(Strings) /\ Len(others') = Len(others) + Len(t) /\ Len(others) \in Nat
  BY <1>1, <1>2, <1>3, <1>4, Joined
<1>6. PICK a \in Nat : a = Len(argv)
  BY <1>2, Joined, NoWords
<1>7. PICK n \in Nat : n = Len(others)
  BY <1>5
<1>8. Len(argv) + Len(others') + words = optind' - 1
  <2>1. PICK i \in Int : i = optind
    BY <1>2
  <2>2. a + n = i - 1 /\ Len(others') = n + (k - i) /\ optind' = k + words
    BY <1>1, <1>2, <1>4, <1>5, <1>6, <1>7, <2>1
  <2>3. k \in Int /\ words \in Int
    BY <1>2
  <2>4. a + (n + (k - i)) + words = (k + words) - 1
    BY <2>2, <2>3
  <2> QED
    BY <1>6, <2>2, <2>4
<1> QED
  BY <1>1, <1>2, <1>5, <1>8

LEMMA OptionFLaunch ==
    ASSUME LaunchInv, OptionF
    PROVE  LaunchInv'
<1>1. PICK k \in 1 .. Len(line) - 1 :
         /\ line[k] = "-f" /\ getopt(k, 2)
         /\ argv' = argv \o <<"-f", line[k + 1]>>
         /\ IF program = "sender"
            THEN /\ UNCHANGED file_name
                 /\ \/ file_d' = -1 /\ UNCHANGED fds
                    \/ \E d \in Fd : Opened(d, File(line[k + 1])) /\ file_d' = d
            ELSE file_name' = Len(argv') /\ UNCHANGED <<file_d, fds>>
         /\ UNCHANGED <<program, line, bytes, receiver_fd, host, port, socket_fd, endpoint, pc>>
  BY DEF OptionF, address, sockets
<1>2. Shape /\ line \in Seq(Strings) /\ Len(line) \in Nat /\ argv \in Seq(Strings) /\ Len(argv) \in Nat
  BY LineWords DEF LaunchInv, Shape
<1>3. /\ pc = "options" /\ optind' \in 1 .. Len(line) + 1 /\ others' \in Seq(Strings)
      /\ Len(argv) + Len(others') + 2 = optind' - 1
  <2>1. k \in 1 .. Len(line) /\ k + 2 <= Len(line) + 1
    BY <1>2
  <2> QED
    BY <1>1, <1>2, <2>1, GetoptKeeps
<1>4. line[k + 1] \in Strings
  BY <1>2, LineWords DEF LaunchInv, Shape
<1>5. argv' \in Seq(Strings) /\ Len(argv') = Len(argv) + 2
  <2>1. PICK t : t = <<"-f", line[k + 1]>>
    OBVIOUS
  <2>2. t \in Seq(Strings) /\ Len(t) = 2
    <3>1. "-f" \in Strings
      BY LinesAssumption
    <3> QED
      BY <1>4, <2>1, <3>1, TwoWords
  <2>3. PICK a \in Seq(Strings) : a = argv
    BY <1>2
  <2>4. a \o t \in Seq(Strings) /\ Len(a \o t) = Len(a) + 2
    <3>1. PICK u \in Seq(Strings) : u = t
      BY <2>2
    <3>2. a \o u \in Seq(Strings) /\ Len(a \o u) = Len(a) + Len(u)
      BY Joined
    <3> QED
      BY <2>2, <3>1, <3>2
  <2> QED
    BY <1>1, <2>1, <2>3, <2>4
<1>6. /\ file_d' \in Fd \cup {-1} /\ fds' \in [Fd -> Description \cup {NULL}]
      /\ file_name' \in 0 .. Len(argv')
      /\ \A d \in Fd : fds'[d] # Socket
      /\ fds'[1] = Output
      /\ program = "sender" /\ fds'[0] = Stdin => file_d' = -1 \/ fds'[file_d'] \notin {NULL, Socket}
  <2>1. /\ fds \in [Fd -> Description \cup {NULL}] /\ \A d \in Fd : fds[d] # Socket
        /\ fds[1] = Output /\ file_d \in Fd \cup {-1} /\ file_name \in 0 .. Len(argv)
    BY <1>3 DEF LaunchInv, Shape, Descriptors, Before, Past
  <2>2. CASE program = "sender" /\ file_d' = -1 /\ UNCHANGED fds
    BY <1>1, <1>2, <1>5, <2>1, <2>2
  <2>3. CASE program = "sender" /\ \E d \in Fd : Opened(d, File(line[k + 1])) /\ file_d' = d
    <3>1. PICK d \in Fd : Opened(d, File(line[k + 1])) /\ file_d' = d
      BY <2>3
    <3>2. fds[d] = NULL /\ fds' = [fds EXCEPT ![d] = File(line[k + 1])]
      BY <3>1 DEF Opened, IsLowestFree
    <3>3. d # 1
      BY <2>1, <3>2, Descriptions
    <3>4. file_name' \in 0 .. Len(argv')
      BY <1>1, <1>2, <1>5, <2>1, <2>3
    <3>5. /\ fds' \in [Fd -> Description \cup {NULL}] /\ fds'[d] = File(line[k + 1])
          /\ \A c \in Fd \ {d} : fds'[c] = fds[c]
      BY <1>4, <2>1, <3>2, Descriptions
    <3>6. fds'[d] \notin {NULL, Socket}
      BY <1>4, <3>5, Descriptions
    <3> QED
      BY <2>1, <3>1, <3>3, <3>4, <3>5, <3>6, Descriptions
  <2>4. CASE program = "receiver"
    BY <1>1, <1>2, <1>5, <2>1, <2>4
  <2> QED
    BY <1>1, <2>2, <2>3, <2>4 DEF LaunchInv, Shape
<1>7. Shape'
  <2>1. Len(argv') + Len(others') = optind' - 1 /\ Len(argv') + Len(others') <= 2 * Len(line)
    BY <1>2, <1>3, <1>5
  <2> QED
    BY <1>1, <1>3, <1>5, <1>6, <2>1 DEF LaunchInv, Shape
<1>8. Named'
  BY <1>1 DEF LaunchInv, Named
<1>9. Descriptors'
  BY <1>1, <1>3, <1>6 DEF LaunchInv, Shape, Descriptors, Before, Ready, Past, UsedOpen, Used
<1> QED
  BY <1>7, <1>8, <1>9 DEF LaunchInv

LEMMA OtherOptionLaunch ==
    ASSUME LaunchInv, OtherOption
    PROVE  LaunchInv'
<1>1. PICK k \in DOMAIN line :
         /\ getopt(k, 1)
         /\ IF file_name = 0
            THEN bytes' = EmptyString /\ argv' = Append(argv, line[k])
            ELSE argv' = Append([argv EXCEPT ![file_name] = EmptyString], line[k]) /\ UNCHANGED bytes
         /\ UNCHANGED <<program, line, file_d, file_name, receiver_fd, fds, host, port,
                        socket_fd, endpoint, pc>>
  BY DEF OtherOption, address, sockets
<1>2. /\ Shape /\ line \in Seq(Strings) /\ Len(line) \in Nat /\ k \in 1 .. Len(line)
      /\ argv \in Seq(Strings) /\ file_name \in 0 .. Len(argv)
  BY LineWords DEF LaunchInv, Shape
<1>3. /\ pc = "options" /\ optind' \in 1 .. Len(line) + 1 /\ others' \in Seq(Strings)
      /\ Len(argv) + Len(others') + 1 = optind' - 1
  <2>1. k + 1 <= Len(line) + 1
    BY <1>2
  <2> QED
    BY <1>1, <1>2, <2>1, GetoptKeeps
<1>4. line[k] \in Strings /\ EmptyString \in Strings
  BY <1>2, LineWords, LinesAssumption DEF LaunchInv, Shape
<1>5. argv' \in Seq(Strings) /\ Len(argv') = Len(argv) + 1 /\ Len(argv) \in Nat
  <2>1. PICK a \in Seq(Strings) : a = argv
    BY <1>2
  <2>2. PICK w \in Strings : w = line[k]
    BY <1>4
  <2>3. Append(a, w) \in Seq(Strings) /\ Len(Append(a, w)) = Len(a) + 1 /\ Len(a) \in Nat
    BY AppendProperties
  <2>4. CASE file_name = 0
    BY <1>1, <2>1, <2>2, <2>3, <2>4
  <2>5. CASE file_name # 0
    <3>1. PICK j \in 1 .. Len(a) : j = file_name
      BY <1>2, <2>1, <2>5
    <3>2. PICK e \in Strings : e = EmptyString
      BY <1>4
    <3>3. PICK b \in Seq(Strings) : b = [a EXCEPT ![j] = e] /\ Len(b) = Len(a)
      <4>1. [a EXCEPT ![j] = e] \in Seq(Strings) /\ Len([a EXCEPT ![j] = e]) = Len(a)
        BY ExceptSeq
      <4> QED
        BY <4>1
    <3>4. Append(b, w) \in Seq(Strings) /\ Len(Append(b, w)) = Len(b) + 1
      BY AppendProperties
    <3> QED
      BY <1>1, <2>1, <2>2, <2>3, <2>5, <3>1, <3>2, <3>3, <3>4
  <2> QED
    BY <2>4, <2>5
<1>6. Shape'
  <2>0. bytes' \in Uninitialised
    BY <1>1 DEF LaunchInv, Shape, Uninitialised
  <2>1. file_name' \in 0 .. Len(argv')
    <3>1. PICK a \in Nat : a = Len(argv)
      BY <1>5
    <3>2. file_name \in 0 .. a /\ Len(argv') = a + 1 /\ file_name' = file_name
      BY <1>1, <1>2, <1>5, <3>1
    <3> QED
      BY <3>2
  <2>2. PICK n \in Nat : n = Len(others')
    BY <1>3, NoWords, Joined
  <2>3. Len(argv') + Len(others') = optind' - 1 /\ Len(argv') + Len(others') <= 2 * Len(line)
    <3>1. PICK a \in Nat : a = Len(argv)
      BY <1>5
    <3>3. PICK l \in Nat : l = Len(line)
      BY <1>2
    <3>2. PICK i \in 1 .. l + 1 : i = optind'
      BY <1>3, <3>3
    <3>4. a + n + 1 = i - 1
      BY <1>3, <1>5, <2>2, <3>1, <3>2
    <3>5. i \in Int /\ i <= l + 1
      OBVIOUS
    <3>6. (a + 1) + n = i - 1 /\ (a + 1) + n <= 2 * l
      BY <3>4, <3>5
    <3> QED
      BY <1>5, <2>2, <3>1, <3>2, <3>3, <3>6
  <2> QED
    BY <1>1, <1>3, <1>5, <2>0, <2>1, <2>3 DEF LaunchInv, Shape
<1>7. Named'
  BY <1>1 DEF LaunchInv, Named
<1>8. Descriptors'
  BY <1>1, <1>3 DEF LaunchInv, Shape, Descriptors, Before, Ready, Past, UsedOpen, Used
<1> QED
  BY <1>6, <1>7, <1>8 DEF LaunchInv

(* The arguments once gathered are all the words of the line. *)
LEMMA Gathered ==
    ASSUME NEW a \in Seq(Strings), NEW o \in Seq(Strings), NEW s \in Seq(Strings),
           NEW i \in 1 .. Len(s) + 1, Len(a) + Len(o) = i - 1
    PROVE  /\ a \o o \o SubSeq(s, i, Len(s)) \in Seq(Strings)
           /\ Len(a \o o \o SubSeq(s, i, Len(s))) = Len(s)
<1>1. Len(s) \in Nat /\ Len(s) \in (i - 1) .. Len(s) /\ i \in Int
  OBVIOUS
<1>2. PICK t \in Seq(Strings) : t = SubSeq(s, i, Len(s)) /\ Len(t) = (Len(s) - i) + 1
  BY <1>1, Passed
<1>3. PICK b \in Seq(Strings) : b = a \o o /\ Len(b) = Len(a) + Len(o)
  BY Joined
<1>4. b \o t \in Seq(Strings) /\ Len(b \o t) = Len(b) + Len(t)
  BY Joined
<1>5. Len(b) + Len(t) = Len(s)
  <2>1. PICK l \in Int : l = Len(s)
    BY <1>1
  <2>2. Len(b) = i - 1 /\ Len(t) = (l - i) + 1 /\ i \in Int
    BY <1>1, <1>2, <1>3, <2>1
  <2>3. (i - 1) + ((l - i) + 1) = l
    BY <2>2
  <2> QED
    BY <2>1, <2>2, <2>3
<1> QED
  BY <1>2, <1>3, <1>4, <1>5

LEMMA EndOptionsLaunch ==
    ASSUME LaunchInv, EndOptions
    PROVE  LaunchInv'
<1>1. /\ pc = "options" /\ pc' = "arguments"
      /\ argv' = argv \o others \o SubSeq(line, optind, Len(line))
      /\ UNCHANGED <<program, line, optind, others, file_d, bytes, file_name, receiver_fd, fds,
                     host, port, socket_fd, endpoint>>
  BY DEF EndOptions, files, names, address, sockets
<1>2. /\ Shape /\ line \in Seq(Strings) /\ Len(line) \in Nat /\ optind \in 1 .. Len(line) + 1
      /\ argv \in Seq(Strings) /\ others \in Seq(Strings) /\ file_name \in 0 .. Len(argv)
      /\ Len(argv) + Len(others) = optind - 1
  BY <1>1, LineWords DEF LaunchInv, Shape
<1>3. PICK a \in Seq(Strings), o \in Seq(Strings), s \in Seq(Strings) : a = argv /\ o = others /\ s = line
  BY <1>2
<1>4. PICK i \in 1 .. Len(s) + 1 : i = optind
  BY <1>2, <1>3
<1>5. /\ argv' \in Seq(Strings) /\ Len(argv') = Len(s)
      /\ Len(o) <= Len(s) /\ Len(a) <= Len(s) /\ Len(a) \in Nat /\ Len(o) \in Nat /\ Len(s) \in Nat
  <2>1. Len(a) + Len(o) = i - 1
    BY <1>2, <1>3, <1>4
  <2>2. Len(a) \in Nat /\ Len(o) \in Nat /\ Len(s) \in Nat
    OBVIOUS
  <2>3. /\ a \o o \o SubSeq(s, i, Len(s)) \in Seq(Strings)
        /\ Len(a \o o \o SubSeq(s, i, Len(s))) = Len(s)
    BY <2>1, Gathered
  <2>4. argv' = a \o o \o SubSeq(s, i, Len(s))
    BY <1>1, <1>3, <1>4
  <2>5. Len(o) <= Len(s) /\ Len(a) <= Len(s)
    BY <2>1, <2>2
  <2> QED
    BY <2>2, <2>3, <2>4, <2>5
<1>6. Shape'
  <2>1. file_name' \in 0 .. Len(argv')
    <3>1. file_name \in 0 .. Len(a) /\ file_name' = file_name
      BY <1>1, <1>2, <1>3
    <3>2. file_name \in 0 .. Len(s)
      BY <1>5, <3>1
    <3> QED
      BY <1>5, <3>1, <3>2
  <2>2. others' = o /\ line' = s
    BY <1>1, <1>3
  <2>3. Len(s) + Len(o) <= 2 * Len(s)
    BY <1>5
  <2>4. Len(argv') + Len(others') <= 2 * Len(line')
    BY <1>5, <2>2, <2>3
  <2> QED
    BY <1>1, <1>5, <2>1, <2>4 DEF LaunchInv, Shape, Before
<1>7. Named'
  BY <1>1 DEF LaunchInv, Named, Before, Ready, Past
<1>8. Descriptors'
  BY <1>1 DEF LaunchInv, Shape, Descriptors, Before, Ready, Past, UsedOpen, Used
<1> QED
  BY <1>6, <1>7, <1>8 DEF LaunchInv

LEMMA RefuseArgumentsLaunch ==
    ASSUME LaunchInv, RefuseArguments
    PROVE  LaunchInv'
<1>1. /\ pc = "arguments" /\ pc' = "failure"
      /\ UNCHANGED <<program, line, optind, argv, others, file_d, bytes, file_name, receiver_fd, fds,
                     host, port, socket_fd, endpoint>>
  BY DEF RefuseArguments, options, files, names, address, sockets
<1>2. Shape'
  BY <1>1 DEF LaunchInv, Shape, Past
<1>3. Named'
  BY <1>1 DEF LaunchInv, Named, Before, Past
<1>4. Descriptors'
  BY <1>1 DEF LaunchInv, Shape, Descriptors, Before, Ready, Past, UsedOpen, Used
<1> QED
  BY <1>2, <1>3, <1>4 DEF LaunchInv

LEMMA TakeArgumentsLaunch ==
    ASSUME LaunchInv, TakeArguments
    PROVE  LaunchInv'
<1>1. /\ pc = "arguments" /\ pc' \in {"address", "crashed"}
      /\ port' \in Int
      /\ UNCHANGED <<program, line, optind, argv, others, file_d, bytes, file_name, receiver_fd, fds,
                     socket_fd, endpoint>>
  <2>1. \A word : atoi(word) \in Int
    BY DEF atoi
  <2> QED
    BY <2>1 DEF TakeArguments, LaunchInv, Shape, options, files, names, sockets
<1>2. Shape'
  BY <1>1 DEF LaunchInv, Shape, Before, Past
<1>3. Named'
  BY <1>1 DEF LaunchInv, Named, Before, Past
<1>4. Descriptors'
  BY <1>1 DEF LaunchInv, Shape, Descriptors, Before, Ready, Past, UsedOpen, Used
<1> QED
  BY <1>2, <1>3, <1>4 DEF LaunchInv

(* What a step after the arguments leaves alone. *)
LEMMA GoToShape ==
    ASSUME LaunchInv, NEW label \in Before \cup Ready \cup Past, label # "options", GoTo(label),
           fds' \in [Fd -> Description \cup {NULL}],
           receiver_fd' \in Fd \cup {-1}, socket_fd' \in Fd \cup {-1}
    PROVE  Shape'
  BY DEF LaunchInv, Shape, GoTo, options, names, address

LEMMA NothingOpened ==
    ASSUME LaunchInv, \/ real_address \/ AddressFails \/ OpenSocketFails
    PROVE  LaunchInv'
<1>1. PICK label \in {"socket", "failure"} :
         GoTo(label) /\ pc \in {"address", "socket"} /\ UNCHANGED <<receiver_fd, fds, socket_fd, endpoint>>
  BY DEF real_address, AddressFails, OpenSocketFails, sockets
<1>2. UNCHANGED <<program, file_d>> /\ pc' = label
  BY <1>1 DEF GoTo
<1>3. Shape'
  BY <1>1, GoToShape DEF LaunchInv, Shape, Before, Past
<1>4. Named'
  BY <1>1, <1>2 DEF LaunchInv, Named, Before, Past
<1>5. Descriptors'
  BY <1>1, <1>2 DEF LaunchInv, Shape, Descriptors, Before, Ready, Past, UsedOpen, Used
<1> QED
  BY <1>3, <1>4, <1>5 DEF LaunchInv

LEMMA OpenSocketLaunch ==
    ASSUME LaunchInv, OpenSocket
    PROVE  LaunchInv'
<1>1. PICK d \in Fd : Opened(d, Socket) /\ socket_fd' = d
  BY DEF OpenSocket
<1>2. /\ pc = "socket" /\ pc' = "name" /\ GoTo("name")
      /\ UNCHANGED <<program, file_d, receiver_fd, endpoint>>
  BY DEF OpenSocket, GoTo
<1>3. /\ fds \in [Fd -> Description \cup {NULL}] /\ \A c \in Fd : fds[c] # Socket
      /\ fds[1] = Output /\ file_d \in Fd \cup {-1}
      /\ program = "sender" /\ fds[0] = Stdin => file_d = -1 \/ fds[file_d] \notin {NULL, Socket}
  BY <1>2 DEF LaunchInv, Shape, Descriptors, Before, Past, UsedOpen, Used
<1>4. fds[d] = NULL /\ fds' = [fds EXCEPT ![d] = Socket]
  BY <1>1 DEF Opened, IsLowestFree
<1>5. /\ d # 1 /\ fds' \in [Fd -> Description \cup {NULL}]
      /\ fds'[d] = Socket /\ \A c \in Fd \ {d} : fds'[c] = fds[c]
  BY <1>3, <1>4, Descriptions
<1>6. Shape'
  BY <1>1, <1>2, <1>5, GoToShape DEF LaunchInv, Shape, Ready
<1>7. Named'
  BY <1>2 DEF LaunchInv, Named, Before, Ready
<1>8. Descriptors'
  <2>1. fds'[1] = Output /\ (fds'[0] = Stdin => fds[0] = Stdin)
    BY <1>3, <1>5, Descriptions
  <2>2. file_d \in Fd /\ fds[file_d] \notin {NULL, Socket} => fds'[file_d] = fds[file_d]
    BY <1>4, <1>5
  <2>3. program' = "sender" /\ fds'[0] = Stdin => file_d' = -1 \/ fds'[file_d'] \notin {NULL, Socket}
    BY <1>2, <1>3, <1>5, <2>1, <2>2, Descriptions
  <2>4. socket_fd' \in Fd /\ \A c \in Fd : fds'[c] = Socket <=> c = socket_fd'
    BY <1>1, <1>3, <1>5
  <2>5. program' = "sender" /\ fds'[0] = Stdin => UsedOpen'
    BY <2>3 DEF UsedOpen, Used
  <2>6. pc' = "name"
    BY <1>2
  <2>7. /\ pc' \in Ready => socket_fd' \in Fd /\ \A c \in Fd : fds'[c] = Socket <=> c = socket_fd'
        /\ pc' \notin Before \cup Past /\ pc' # "loop"
    BY <2>4, <2>6 DEF Before, Ready, Past
  <2>8. fds'[1] = Output
    BY <2>1
  <2> QED
    BY <2>5, <2>7, <2>8 DEF Descriptors
<1> QED
  BY <1>6, <1>7, <1>8 DEF LaunchInv

(* A port has 16 bits once it is in the order of the network. *)
LEMMA PortType ==
    ASSUME NEW n \in Int
    PROVE  htons(n) \in 0 .. UShortRange - 1
<1>1. \A r \in Nat \ {0} : n % r \in 0 .. r - 1
  OBVIOUS
<1>2. UShortRange \in Nat \ {0}
  BY DEF UShortRange
<1> QED
  BY <1>1, <1>2 DEF htons

LEMMA NameSocketLaunch ==
    ASSUME LaunchInv, NameSocket \/ SocketWithoutPort
    PROVE  LaunchInv'
<1>1. /\ pc = "name" /\ pc' \in {"loop", "output"} /\ (pc' = "output" <=> program # "sender")
      /\ GoTo(Entry) /\ UNCHANGED <<program, file_d, receiver_fd, fds, socket_fd, host, port>>
      /\ endpoint' = IF port > 0 THEN [host |-> host, port |-> htons(port)] ELSE NULL
  <2>1. pc = "name" => endpoint = NULL /\ port \in Int
    BY DEF LaunchInv, Named, Shape
  <2> QED
    BY <2>1 DEF NameSocket, SocketWithoutPort, GoTo, Entry, sockets, address
<1>2. Shape'
  <2>1. Entry \in Ready
    BY DEF Entry, Ready
  <2> QED
    BY <1>1, <2>1, GoToShape DEF LaunchInv, Shape, Ready
<1>3. Named'
  <2>1. PICK n \in Int : n = port
    BY DEF LaunchInv, Shape
  <2>2. htons(n) \in 0 .. UShortRange - 1
    BY PortType
  <2>3. endpoint' # NULL => endpoint'.port \in 0 .. UShortRange - 1
    BY <1>1, <2>1, <2>2
  <2> QED
    BY <1>1, <2>3 DEF Named, Before, htons
<1>4. Descriptors'
  BY <1>1 DEF LaunchInv, Shape, Descriptors, Before, Ready, Past, UsedOpen, Used
<1> QED
  BY <1>2, <1>3, <1>4 DEF LaunchInv

LEMMA NameSocketFailsLaunch ==
    ASSUME LaunchInv, NameSocketFails
    PROVE  LaunchInv'
<1>1. /\ pc = "name" /\ pc' = "failure" /\ GoTo("failure")
      /\ fds' = Closed(fds, socket_fd) /\ socket_fd' = -1
      /\ UNCHANGED <<program, receiver_fd, endpoint>>
  BY DEF NameSocketFails, GoTo
<1>2. /\ fds \in [Fd -> Description \cup {NULL}]
      /\ \A d \in Fd : fds[d] = Socket => d = socket_fd
  BY <1>1 DEF LaunchInv, Shape, Descriptors, Ready
<1>3. fds' \in [Fd -> Description \cup {NULL}] /\ \A d \in Fd : fds'[d] # Socket
  BY <1>1, <1>2, Descriptions DEF Closed
<1>4. Shape'
  BY <1>1, <1>3, GoToShape DEF LaunchInv, Shape, Past
<1>5. Named'
  BY <1>1 DEF LaunchInv, Named, Before
<1>6. Descriptors'
  BY <1>1, <1>3 DEF Descriptors, Before, Ready, Past
<1> QED
  BY <1>4, <1>5, <1>6 DEF LaunchInv

LEMMA FileNameIsAWord == Shape => FileName \in Strings
<1> SUFFICES ASSUME Shape PROVE FileName \in Strings
  OBVIOUS
<1>1. bytes \in Strings
  BY LinesAssumption DEF Shape, Uninitialised
<1>2. CASE file_name # 0
  <2>1. PICK a \in Seq(Strings) : a = argv
    BY DEF Shape
  <2>2. PICK j \in 1 .. Len(a) : j = file_name
    BY <1>2, <2>1 DEF Shape
  <2>3. a[j] \in Strings
    OBVIOUS
  <2> QED
    BY <1>2, <2>1, <2>2, <2>3 DEF FileName
<1> QED
  BY <1>1, <1>2 DEF FileName

LEMMA OpenOutputLaunch ==
    ASSUME LaunchInv, OpenOutput
    PROVE  LaunchInv'
<1>1. /\ pc = "output" /\ pc' = "loop" /\ GoTo("loop")
      /\ UNCHANGED <<program, host, port, file_d, socket_fd, endpoint>>
  BY DEF OpenOutput, GoTo, sockets, address
<1>2. /\ fds \in [Fd -> Description \cup {NULL}] /\ fds[1] = Output
      /\ socket_fd \in Fd /\ \A d \in Fd : fds[d] = Socket <=> d = socket_fd
      /\ file_d \in Fd \cup {-1}
      /\ program = "sender" /\ fds[0] = Stdin => file_d = -1 \/ fds[file_d] \notin {NULL, Socket}
  BY <1>1 DEF LaunchInv, Shape, Descriptors, Ready, Past, UsedOpen, Used
<1>3. /\ fds' \in [Fd -> Description \cup {NULL}] /\ fds'[1] = Output
      /\ \A d \in Fd : fds'[d] = Socket <=> d = socket_fd
      /\ \A d \in Fd : fds[d] \in {NULL, fds'[d]}
      /\ fds'[0] = Stdin => fds[0] = Stdin
      /\ receiver_fd' \in Fd \cup {-1}
      /\ receiver_fd' = -1 \/ fds'[receiver_fd'] \notin {NULL, Socket}
  <2>1. CASE receiver_fd' = 1 /\ UNCHANGED fds
    BY <1>2, <2>1, Descriptions
  <2>2. CASE receiver_fd' = -1 /\ UNCHANGED fds
    BY <1>2, <2>2
  <2>3. CASE \E d \in Fd : Opened(d, File(FileName)) /\ receiver_fd' = d
    <3>1. PICK d \in Fd : Opened(d, File(FileName)) /\ receiver_fd' = d
      BY <2>3
    <3>2. fds[d] = NULL /\ fds' = [fds EXCEPT ![d] = File(FileName)]
      BY <3>1 DEF Opened, IsLowestFree
    <3>3. PICK n \in Strings : n = FileName
      BY FileNameIsAWord DEF LaunchInv
    <3>4. /\ fds' \in [Fd -> Description \cup {NULL}] /\ fds'[d] = File(n)
          /\ \A c \in Fd \ {d} : fds'[c] = fds[c]
      BY <1>2, <3>2, <3>3, Descriptions
    <3>5. d # 1 /\ d # socket_fd
      BY <1>2, <3>2, Descriptions
    <3>6. File(n) \notin {NULL, Socket, Stdin}
      BY Descriptions
    <3>7. \A c \in Fd : fds[c] \in {NULL, fds'[c]} /\ (fds'[c] = Socket <=> c = socket_fd)
      BY <1>2, <3>2, <3>4, <3>5, <3>6
    <3> QED
      BY <1>2, <3>1, <3>2, <3>4, <3>5, <3>6, <3>7, Descriptions
  <2> QED
    BY <2>1, <2>2, <2>3 DEF OpenOutput
<1>4. Shape'
  BY <1>1, <1>3, GoToShape DEF LaunchInv, Shape, Ready
<1>5. Named'
  BY <1>1 DEF LaunchInv, Named, Before
<1>6. Descriptors'
  <2>1. program' = "sender" /\ fds'[0] = Stdin => file_d' = -1 \/ fds'[file_d'] \notin {NULL, Socket}
    BY <1>1, <1>2, <1>3
  <2>2. program' = "sender" /\ fds'[0] = Stdin => UsedOpen'
    BY <2>1 DEF UsedOpen, Used
  <2>3. program' = "receiver" => UsedOpen'
    BY <1>3 DEF UsedOpen, Used
  <2>4. socket_fd' \in Fd /\ \A d \in Fd : fds'[d] = Socket <=> d = socket_fd'
    BY <1>1, <1>2, <1>3
  <2> QED
    BY <1>1, <1>3, <2>2, <2>3, <2>4 DEF Descriptors, Before, Ready, Past
<1> QED
  BY <1>4, <1>5, <1>6 DEF LaunchInv

LEMMA ClosesLaunch ==
    ASSUME LaunchInv, LoopEnds \/ MainCloses
    PROVE  LaunchInv'
<1>1. PICK label \in {"close", "success"} :
         /\ pc' = label /\ GoTo(label) /\ pc \in {"loop", "close"}
         /\ UNCHANGED <<program, receiver_fd, socket_fd, endpoint>>
  BY DEF LoopEnds, MainCloses, GoTo, sockets
<1>2. /\ fds \in [Fd -> Description \cup {NULL}]
      /\ \A d \in Fd : fds[d] = Socket => pc = "loop" /\ d = socket_fd
  BY <1>1 DEF LaunchInv, Shape, Descriptors, Before, Ready, Past
<1>3. fds' \in [Fd -> Description \cup {NULL}] /\ \A d \in Fd : fds'[d] # Socket
  <2>1. CASE LoopEnds
    BY <1>2, <2>1, Descriptions DEF LoopEnds, Closed
  <2>2. CASE MainCloses
    BY <1>2, <2>2, Descriptions DEF MainCloses, Closed
  <2> QED
    BY <2>1, <2>2
<1>4. Shape'
  BY <1>1, <1>3, GoToShape DEF LaunchInv, Shape, Past
<1>5. Named'
  BY <1>1 DEF LaunchInv, Named, Before
<1>6. Descriptors'
  BY <1>1, <1>3 DEF Descriptors, Before, Ready, Past
<1> QED
  BY <1>4, <1>5, <1>6 DEF LaunchInv

(* The invariant, which the properties below rest on: what each descriptor  *)
(* is open on and where the socket is named, at every point of the two     *)
(* programs.                                                               *)
THEOREM LaunchInvariant == Spec => []LaunchInv
<1>1. LaunchInv /\ [Next]_vars => LaunchInv'
  <2>1. LaunchInv /\ Next => LaunchInv'
    BY OptionFLaunch, OtherOptionLaunch, EndOptionsLaunch, RefuseArgumentsLaunch, TakeArgumentsLaunch,
       NothingOpened, OpenSocketLaunch, NameSocketLaunch, NameSocketFailsLaunch, OpenOutputLaunch,
       ClosesLaunch DEF Next
  <2>2. LaunchInv /\ UNCHANGED vars => LaunchInv'
    BY DEF LaunchInv, Shape, Named, Descriptors, UsedOpen, Used, vars, options, files, names, address, sockets
  <2> QED
    BY <2>1, <2>2
<1> QED
  BY InitLaunch, <1>1, PTL DEF Spec

(* Every variable of the two programs keeps its type, and the port that a  *)
(* socket is given is one of 16 bits whatever number is on the line.       *)
THEOREM LaunchTyped == Spec => []TypeOK
<1>1. LaunchInv => TypeOK
  BY DEF LaunchInv, Shape, Named, TypeOK, Before, Ready, Past
<1> QED
  BY <1>1, LaunchInvariant, PTL

(* The loop has an open socket that is not the file's descriptor, and the  *)
(* program leaves none open wherever it stops.                             *)
THEOREM NoSocketLeft == Spec => []SocketsClosed
<1>1. LaunchInv => SocketsClosed
  <2> SUFFICES ASSUME LaunchInv PROVE SocketsClosed
    OBVIOUS
  <2>1. pc \in {"success", "failure", "crashed"} => \A d \in Fd : fds[d] # Socket
    BY DEF LaunchInv, Descriptors, Past
  <2>2. pc = "loop" /\ fds[0] = Stdin => fds[socket_fd] = Socket /\ Used # socket_fd
    <3> SUFFICES ASSUME pc = "loop", fds[0] = Stdin PROVE fds[socket_fd] = Socket /\ Used # socket_fd
      OBVIOUS
    <3>1. socket_fd \in Fd /\ fds[socket_fd] = Socket /\ program \in {"sender", "receiver"} /\ UsedOpen
      BY DEF LaunchInv, Shape, Descriptors, Ready, Past
    <3> QED
      BY <3>1, Descriptions DEF UsedOpen
  <2> QED
    BY <2>1, <2>2 DEF SocketsClosed
<1> QED
  BY <1>1, LaunchInvariant, PTL

(* The sender reads no argument beyond the last (l. 47 of sender.c): no    *)
(* strtol of a null pointer.                                               *)
THEOREM SenderArguments == Spec => []SenderStaysInArgv
<1>1. LaunchInv => SenderStaysInArgv
  BY NoWords, Joined DEF LaunchInv, Shape, SenderStaysInArgv, TooFew, HostIndex, WithFile, argc, MIN_ARGUMENT, MAX_ARGUMENT
<1> QED
  BY <1>1, LaunchInvariant, PTL

----------------------------------------------------------------------------
(* What getopt gathers of a line that follows the usage.                    *)
LEMMA OneWord ==
    ASSUME NEW S, NEW a \in S
    PROVE  <<a>> \in Seq(S) /\ Len(<<a>>) = 1 /\ <<a>>[1] = a
  OBVIOUS

LEMMA FourWords ==
    ASSUME NEW S, NEW a \in S, NEW b \in S, NEW c \in S, NEW d \in S
    PROVE  /\ <<a, b, c, d>> \in Seq(S) /\ Len(<<a, b, c, d>>) = 4
           /\ <<a, b, c, d>>[1] = a /\ <<a, b, c, d>>[2] = b /\ <<a, b, c, d>>[3] = c /\ <<a, b, c, d>>[4] = d
  OBVIOUS

LEMMA ThatWord ==
    ASSUME NEW S, NEW s \in Seq(S), NEW a \in S, Len(s) = 1, s[1] = a
    PROVE  s = <<a>>
<1>1. \A i \in 1 .. Len(s) : s[i] = <<a>>[i]
  OBVIOUS
<1> QED
  BY <1>1, OneWord, SeqEqual

LEMMA ThoseWords ==
    ASSUME NEW S, NEW s \in Seq(S), NEW a \in S, NEW b \in S, Len(s) = 2, s[1] = a, s[2] = b
    PROVE  s = <<a, b>>
<1>1. PICK t \in Seq(S) : t = <<a, b>> /\ Len(t) = 2 /\ t[1] = a /\ t[2] = b
  BY TwoWords
<1>2. \A i \in 1 .. Len(s) : s[i] = t[i]
  BY <1>1
<1> QED
  BY <1>1, <1>2, SeqEqual

LEMMA TheFourWords ==
    ASSUME NEW S, NEW s \in Seq(S), NEW a \in S, NEW b \in S, NEW c \in S, NEW d \in S,
           Len(s) = 4, s[1] = a, s[2] = b, s[3] = c, s[4] = d
    PROVE  s = <<a, b, c, d>>
<1>1. PICK t \in Seq(S) : t = <<a, b, c, d>> /\ Len(t) = 4 /\ t[1] = a /\ t[2] = b /\ t[3] = c /\ t[4] = d
  BY FourWords
<1>2. \A i \in 1 .. Len(s) : s[i] = t[i]
  BY <1>1
<1> QED
  BY <1>1, <1>2, SeqEqual

LEMMA NothingJoined ==
    ASSUME NEW S, NEW s \in Seq(S)
    PROVE  <<>> \o s = s /\ s \o <<>> = s
<1>1. PICK e \in Seq(S) : e = <<>> /\ Len(e) = 0
  BY NoWords
<1>2. PICK u \in Seq(S) : u = e \o s /\ Len(u) = Len(s) /\ \A i \in 1 .. Len(s) : u[i] = s[i]
  <2>1. /\ e \o s \in Seq(S) /\ Len(e \o s) = Len(e) + Len(s)
        /\ \A i \in 1 .. Len(e) + Len(s) : (e \o s)[i] = IF i <= Len(e) THEN e[i] ELSE s[i - Len(e)]
    BY ConcatProperties
  <2> QED
    BY <1>1, <2>1
<1>3. PICK v \in Seq(S) : v = s \o e /\ Len(v) = Len(s) /\ \A i \in 1 .. Len(s) : v[i] = s[i]
  <2>1. /\ s \o e \in Seq(S) /\ Len(s \o e) = Len(s) + Len(e)
        /\ \A i \in 1 .. Len(s) + Len(e) : (s \o e)[i] = IF i <= Len(s) THEN s[i] ELSE e[i - Len(s)]
    BY ConcatProperties
  <2> QED
    BY <1>1, <2>1
<1>4. u = s /\ v = s
  BY <1>2, <1>3, SeqEqual
<1> QED
  BY <1>1, <1>2, <1>3, <1>4

LEMMA FoundBetween ==
    ASSUME NEW s \in Seq(Strings), NEW i \in 1 .. Len(s) + 1
    PROVE  /\ SubSeq(s, i, i - 1) = <<>>
           /\ i <= Len(s) => SubSeq(s, i, i) = <<s[i]>>
           /\ i < Len(s) => SubSeq(s, i, i + 1) = <<s[i], s[i + 1]>>
<1>1. i \in Int /\ Len(s) \in Nat
  OBVIOUS
<1>2. SubSeq(s, i, i - 1) = <<>>
  <2>1. i - 1 \in (i - 1) .. Len(s)
    BY <1>1
  <2>2. PICK t \in Seq(Strings) : t = SubSeq(s, i, i - 1) /\ Len(t) = ((i - 1) - i) + 1
    BY <2>1, Passed
  <2> QED
    BY <1>1, <2>2
<1>3. ASSUME i <= Len(s) PROVE SubSeq(s, i, i) = <<s[i]>>
  <2>1. i \in (i - 1) .. Len(s)
    BY <1>1, <1>3
  <2>2. PICK t \in Seq(Strings) : t = SubSeq(s, i, i) /\ Len(t) = (i - i) + 1 /\ t[1] = s[i + 1 - 1]
    <3>1. /\ SubSeq(s, i, i) \in Seq(Strings) /\ Len(SubSeq(s, i, i)) = (i - i) + 1
          /\ \A k \in 1 .. (i - i) + 1 : SubSeq(s, i, i)[k] = s[i + k - 1]
      BY <2>1, Passed
    <3>2. 1 \in 1 .. (i - i) + 1
      BY <1>1
    <3> QED
      BY <3>1, <3>2
  <2>3. PICK a \in Strings : a = s[i]
    BY <1>1, <1>3
  <2>4. Len(t) = 1 /\ t[1] = a
    BY <1>1, <2>2, <2>3
  <2>5. t = <<a>>
    BY <2>4, ThatWord
  <2> QED
    BY <2>2, <2>3, <2>5
<1>4. ASSUME i < Len(s) PROVE SubSeq(s, i, i + 1) = <<s[i], s[i + 1]>>
  <2>1. i + 1 \in (i - 1) .. Len(s)
    BY <1>1, <1>4
  <2>2. PICK t \in Seq(Strings) : /\ t = SubSeq(s, i, i + 1) /\ Len(t) = ((i + 1) - i) + 1
                                  /\ t[1] = s[i + 1 - 1] /\ t[2] = s[i + 2 - 1]
    <3>1. /\ SubSeq(s, i, i + 1) \in Seq(Strings) /\ Len(SubSeq(s, i, i + 1)) = ((i + 1) - i) + 1
          /\ \A k \in 1 .. ((i + 1) - i) + 1 : SubSeq(s, i, i + 1)[k] = s[i + k - 1]
      BY <2>1, Passed
    <3>2. 1 \in 1 .. ((i + 1) - i) + 1 /\ 2 \in 1 .. ((i + 1) - i) + 1
      BY <1>1
    <3> QED
      BY <3>1, <3>2
  <2>3. PICK a \in Strings : a = s[i]
    BY <1>1, <1>4
  <2>4. PICK b \in Strings : b = s[i + 1]
    BY <1>1, <1>4
  <2>5. Len(t) = 2 /\ t[1] = a /\ t[2] = b
    BY <1>1, <2>2, <2>3, <2>4
  <2>6. t = <<a, b>>
    BY <2>5, ThoseWords
  <2> QED
    BY <2>2, <2>3, <2>4, <2>6
<1> QED
  BY <1>2, <1>3, <1>4

LEMMA Rejoined ==
    ASSUME NEW a \in Strings, NEW b \in Strings, NEW c \in Strings, NEW d \in Strings
    PROVE  /\ <<a, b>> \o <<c, d>> = <<a, b, c, d>>
           /\ <<a, b>> \o <<c>> \o <<d>> = <<a, b, c, d>>
<1>1. PICK s \in Seq(Strings) : s = <<a, b>> /\ Len(s) = 2 /\ s[1] = a /\ s[2] = b
  <2>1. /\ <<a, b>> \in Seq(Strings) /\ Len(<<a, b>>) = 2
        /\ <<a, b>>[1] = a /\ <<a, b>>[2] = b
    BY TwoWords
  <2> QED
    BY <2>1
<1>2. PICK t \in Seq(Strings) : t = <<c, d>> /\ Len(t) = 2 /\ t[1] = c /\ t[2] = d
  <2>1. /\ <<c, d>> \in Seq(Strings) /\ Len(<<c, d>>) = 2
        /\ <<c, d>>[1] = c /\ <<c, d>>[2] = d
    BY TwoWords
  <2> QED
    BY <2>1
<1>3. \A x, y \in Strings : <<x>> \o <<y>> = <<x, y>>
  <2>1. TAKE x \in Strings, y \in Strings
  <2>2. PICK u \in Seq(Strings) : u = <<x>> /\ Len(u) = 1 /\ u[1] = x
    BY OneWord
  <2>3. PICK v \in Seq(Strings) : v = <<y>> /\ Len(v) = 1 /\ v[1] = y
    BY OneWord
  <2>4. /\ u \o v \in Seq(Strings) /\ Len(u \o v) = Len(u) + Len(v)
        /\ \A i \in 1 .. Len(u) + Len(v) : (u \o v)[i] = IF i <= Len(u) THEN u[i] ELSE v[i - Len(u)]
    BY ConcatProperties
  <2>5. Len(u \o v) = 2 /\ (u \o v)[1] = x /\ (u \o v)[2] = y
    BY <2>2, <2>3, <2>4
  <2>6. u \o v = <<x, y>>
    BY <2>4, <2>5, ThoseWords
  <2> QED
    BY <2>2, <2>3, <2>6
<1>4. <<a, b>> \o <<c, d>> = <<a, b, c, d>>
  <2>1. /\ s \o t \in Seq(Strings) /\ Len(s \o t) = Len(s) + Len(t)
        /\ \A i \in 1 .. Len(s) + Len(t) : (s \o t)[i] = IF i <= Len(s) THEN s[i] ELSE t[i - Len(s)]
    BY ConcatProperties
  <2>2. Len(s \o t) = 4 /\ (s \o t)[1] = a /\ (s \o t)[2] = b
    BY <1>1, <1>2, <2>1
  <2>4. (s \o t)[3] = c /\ (s \o t)[4] = d
    <3>1. 3 \in 1 .. Len(s) + Len(t) /\ 4 \in 1 .. Len(s) + Len(t)
      BY <1>1, <1>2
    <3>2. (s \o t)[3] = t[3 - Len(s)] /\ (s \o t)[4] = t[4 - Len(s)]
      BY <1>1, <2>1, <3>1
    <3> QED
      BY <1>1, <1>2, <3>2
  <2>5. PICK w \in Seq(Strings) : w = s \o t
    BY <2>1
  <2>6. Len(w) = 4 /\ w[1] = a /\ w[2] = b /\ w[3] = c /\ w[4] = d
    BY <2>2, <2>4, <2>5
  <2>7. w = <<a, b, c, d>>
    BY <2>6, TheFourWords
  <2> QED
    BY <1>1, <1>2, <2>5, <2>7
<1>5. <<a, b>> \o <<c>> \o <<d>> = <<a, b, c, d>>
  <2>1. PICK u \in Seq(Strings), v \in Seq(Strings) : u = <<c>> /\ v = <<d>>
    BY OneWord
  <2>2. (s \o u) \o v = s \o (u \o v)
    BY ConcatAssociative
  <2>3. u \o v = <<c, d>>
    BY <1>3, <2>1
  <2> QED
    BY <1>1, <1>4, <2>1, <2>2, <2>3
<1> QED
  BY <1>4, <1>5

(* Each of the three orders: what is passed over before the option, and     *)
(* what is left at the end.                                                *)
Gathers(f, n, h, p) ==
    /\ <<>> \o <<f, n>> = <<f, n>>
    /\ <<>> \o <<>> \o SubSeq(<<h, p>>, 1, 2) = <<h, p>>
    /\ <<>> \o SubSeq(<<h, p, f, n>>, 1, 2) = <<h, p>>
    /\ <<>> \o SubSeq(<<h, f, n, p>>, 1, 1) = <<h>>
    /\ <<>> \o SubSeq(<<f, n, h, p>>, 1, 0) = <<>>
    /\ <<f, n>> \o <<h, p>> \o SubSeq(<<h, p, f, n>>, 5, 4) = <<f, n, h, p>>
    /\ <<f, n>> \o <<h>> \o SubSeq(<<h, f, n, p>>, 4, 4) = <<f, n, h, p>>
    /\ <<f, n>> \o <<>> \o SubSeq(<<f, n, h, p>>, 3, 4) = <<f, n, h, p>>

LEMMA PartsOfFour ==
    ASSUME NEW a \in Strings, NEW b \in Strings, NEW c \in Strings, NEW d \in Strings
    PROVE  /\ SubSeq(<<a, b, c, d>>, 1, 0) = <<>> /\ SubSeq(<<a, b, c, d>>, 5, 4) = <<>>
           /\ SubSeq(<<a, b, c, d>>, 1, 1) = <<a>> /\ SubSeq(<<a, b, c, d>>, 4, 4) = <<d>>
           /\ SubSeq(<<a, b, c, d>>, 1, 2) = <<a, b>> /\ SubSeq(<<a, b, c, d>>, 3, 4) = <<c, d>>
<1>1. PICK s \in Seq(Strings) :
         s = <<a, b, c, d>> /\ Len(s) = 4 /\ s[1] = a /\ s[2] = b /\ s[3] = c /\ s[4] = d
  <2>1. /\ <<a, b, c, d>> \in Seq(Strings) /\ Len(<<a, b, c, d>>) = 4
        /\ <<a, b, c, d>>[1] = a /\ <<a, b, c, d>>[2] = b /\ <<a, b, c, d>>[3] = c /\ <<a, b, c, d>>[4] = d
    BY FourWords
  <2> QED
    BY <2>1
<1>2. SubSeq(s, 1, 1 - 1) = <<>> /\ SubSeq(s, 1, 1) = <<s[1]>> /\ SubSeq(s, 1, 1 + 1) = <<s[1], s[1 + 1]>>
  <2>1. PICK i \in 1 .. Len(s) + 1 : i = 1
    BY <1>1
  <2>2. SubSeq(s, i, i - 1) = <<>>
    BY FoundBetween
  <2>3. i <= Len(s) => SubSeq(s, i, i) = <<s[i]>>
    BY FoundBetween
  <2>4. i < Len(s) => SubSeq(s, i, i + 1) = <<s[i], s[i + 1]>>
    BY FoundBetween
  <2> QED
    BY <1>1, <2>1, <2>2, <2>3, <2>4
<1>3. SubSeq(s, 3, 3 + 1) = <<s[3], s[3 + 1]>>
  <2>1. PICK i \in 1 .. Len(s) + 1 : i = 3
    BY <1>1
  <2>2. i < Len(s) => SubSeq(s, i, i + 1) = <<s[i], s[i + 1]>>
    BY FoundBetween
  <2> QED
    BY <1>1, <2>1, <2>2
<1>4. SubSeq(s, 4, 4) = <<s[4]>>
  <2>1. PICK i \in 1 .. Len(s) + 1 : i = 4
    BY <1>1
  <2>2. i <= Len(s) => SubSeq(s, i, i) = <<s[i]>>
    BY FoundBetween
  <2> QED
    BY <1>1, <2>1, <2>2
<1>5. SubSeq(s, 5, 5 - 1) = <<>>
  <2>1. PICK i \in 1 .. Len(s) + 1 : i = 5
    BY <1>1
  <2>2. SubSeq(s, i, i - 1) = <<>>
    BY FoundBetween
  <2> QED
    BY <2>1, <2>2
<1>6. SubSeq(s, 1, 1) = <<a>> /\ SubSeq(s, 4, 4) = <<d>>
  BY <1>1, <1>2, <1>4
<1>7. SubSeq(s, 1, 2) = <<a, b>> /\ SubSeq(s, 3, 4) = <<c, d>>
  BY <1>1, <1>2, <1>3
<1> QED
  BY <1>1, <1>2, <1>5, <1>6, <1>7

LEMMA Orders ==
    ASSUME NEW f \in Strings, NEW n \in Strings, NEW h \in Strings, NEW p \in Strings
    PROVE  Gathers(f, n, h, p)
<1>1. SubSeq(<<h, p>>, 1, 2) = <<h, p>>
  <2>1. PICK s \in Seq(Strings) : s = <<h, p>> /\ Len(s) = 2 /\ s[1] = h /\ s[2] = p
    <3>1. /\ <<h, p>> \in Seq(Strings) /\ Len(<<h, p>>) = 2 /\ <<h, p>>[1] = h /\ <<h, p>>[2] = p
      BY TwoWords
    <3> QED
      BY <3>1
  <2>2. PICK i \in 1 .. Len(s) + 1 : i = 1
    BY <2>1
  <2>3. i < Len(s) => SubSeq(s, i, i + 1) = <<s[i], s[i + 1]>>
    BY FoundBetween
  <2>4. i + 1 = 2 /\ i < Len(s)
    BY <2>1, <2>2
  <2> QED
    BY <2>1, <2>2, <2>3, <2>4
<1>2. /\ <<>> \o <<f, n>> = <<f, n>> /\ <<f, n>> \o <<>> = <<f, n>> /\ <<>> \o <<h>> = <<h>>
      /\ <<>> \o <<>> = <<>> /\ <<>> \o <<h, p>> = <<h, p>>
  <2>1. <<f, n>> \in Seq(Strings) /\ <<h, p>> \in Seq(Strings) /\ <<h>> \in Seq(Strings) /\ <<>> \in Seq(Strings)
    BY TwoWords, OneWord, NoWords
  <2> QED
    BY <2>1, NothingJoined
<1>3. PICK w \in Seq(Strings) : w = <<f, n, h, p>>
  <2>1. <<f, n, h, p>> \in Seq(Strings)
    BY FourWords
  <2> QED
    BY <2>1
<1>4. w \o <<>> = w
  BY NothingJoined
<1>5. <<f, n>> \o <<h, p>> = <<f, n, h, p>> /\ <<f, n>> \o <<h>> \o <<p>> = <<f, n, h, p>>
  BY Rejoined
<1>7. SubSeq(<<h, p, f, n>>, 1, 2) = <<h, p>> /\ SubSeq(<<h, p, f, n>>, 5, 4) = <<>>
  BY PartsOfFour
<1>8. SubSeq(<<h, f, n, p>>, 1, 1) = <<h>> /\ SubSeq(<<h, f, n, p>>, 4, 4) = <<p>>
  BY PartsOfFour
<1>9. SubSeq(<<f, n, h, p>>, 1, 0) = <<>> /\ SubSeq(<<f, n, h, p>>, 3, 4) = <<h, p>>
  BY PartsOfFour
<1>10. <<f, n>> \o <<h, p>> \o SubSeq(<<h, p, f, n>>, 5, 4) = <<f, n, h, p>>
  BY <1>3, <1>4, <1>5, <1>7
<1>11. <<f, n>> \o <<h>> \o SubSeq(<<h, f, n, p>>, 4, 4) = <<f, n, h, p>>
  BY <1>5, <1>8
<1>12. <<f, n>> \o <<>> \o SubSeq(<<f, n, h, p>>, 3, 4) = <<f, n, h, p>>
  BY <1>2, <1>5, <1>9
<1> QED
  BY <1>1, <1>2, <1>7, <1>8, <1>9, <1>10, <1>11, <1>12 DEF Gathers

----------------------------------------------------------------------------
(* The usage. *)
LEMMA WordsAreNoOptions ==
    ASSUME line \in Lines, NEW w \in Words
    PROVE  w \in Strings /\ w # "-f" /\ w # "-x"
<1>1. PICK j \in DOMAIN line : ~IsOption(line[j]) /\ w = line[j]
  BY DEF Words
<1> QED
  BY <1>1, LineWords DEF IsOption

(* What the steps after the options change. *)
LEMMA Onward ==
    ASSUME LaunchInv, Next, pc # "options"
    PROVE  /\ UNCHANGED <<program, line, optind, argv, others, file_d, bytes, file_name>>
           /\ pc' # "options"
           /\ pc' \notin Past => \A c \in Fd : fds[c] \in {NULL, fds'[c]}
           /\ fds'[0] = Stdin => fds[0] = Stdin
           /\ \/ pc' = "address" /\ TakeArguments
              \/ pc' = "socket" /\ pc = "address" /\ host # NULL /\ UNCHANGED <<host, port>>
              \/ pc' \in {"name", "output"} /\ pc \in {"socket", "name"} /\ UNCHANGED <<host, port>>
              \/ pc' = "loop" /\ pc = "name" /\ program = "sender" /\ UNCHANGED <<host, port>>
              \/ pc' = "loop" /\ pc = "output" /\ UNCHANGED <<host, port>> /\ OpenOutput
              \/ pc' \in Past
           /\ pc' = "crashed" => TakeArguments
<1>1. /\ fds \in [Fd -> Description \cup {NULL}] /\ FileName \in Strings
  BY FileNameIsAWord DEF LaunchInv, Shape
<1>2. \A d \in Fd : \A what \in {Socket, File(FileName)} :
         Opened(d, what) => /\ \A c \in Fd : fds[c] \in {NULL, fds'[c]}
                            /\ fds'[0] = Stdin => fds[0] = Stdin
  BY <1>1, Descriptions DEF Opened, IsLowestFree
<1>3. CASE RefuseArguments
  BY <1>3 DEF RefuseArguments, options, files, names, Past
<1>4. CASE TakeArguments
  BY <1>4 DEF TakeArguments, options, files, names, Past
<1>5. CASE real_address
  BY <1>5 DEF real_address, GoTo, options, names, address, Past
<1>6. CASE AddressFails
  BY <1>6 DEF AddressFails, GoTo, options, names, address, Past
<1>7. CASE OpenSocket
  <2>1. PICK d \in Fd : Opened(d, Socket)
    BY <1>7 DEF OpenSocket
  <2>2. /\ \A c \in Fd : fds[c] \in {NULL, fds'[c]}
        /\ fds'[0] = Stdin => fds[0] = Stdin
    BY <1>1, <1>2, <2>1
  <2> QED
    BY <1>7, <2>2 DEF OpenSocket, GoTo, options, names, address, Past
<1>8. CASE OpenSocketFails
  BY <1>8 DEF OpenSocketFails, GoTo, options, names, address, Past
<1>9. CASE NameSocket \/ SocketWithoutPort
  BY <1>9 DEF NameSocket, SocketWithoutPort, Entry, GoTo, options, names, address, Past
<1>10. CASE NameSocketFails
  <2>1. fds'[0] = Stdin => fds[0] = Stdin
    BY <1>10, Descriptions DEF NameSocketFails, Closed
  <2> QED
    BY <1>10, <2>1 DEF NameSocketFails, GoTo, options, names, address, Past
<1>11. CASE OpenOutput
  <2>1. /\ \A c \in Fd : fds[c] \in {NULL, fds'[c]}
        /\ fds'[0] = Stdin => fds[0] = Stdin
    <3>1. CASE UNCHANGED fds
      BY <3>1
    <3>2. CASE \E d \in Fd : Opened(d, File(FileName))
      BY <1>1, <1>2, <3>2
    <3> QED
      BY <1>11, <3>1, <3>2 DEF OpenOutput
  <2> QED
    BY <1>11, <2>1 DEF OpenOutput, GoTo, options, names, address, Past
<1>12. CASE LoopEnds \/ MainCloses
  <2>1. fds'[0] = Stdin => fds[0] = Stdin
    BY <1>12, Descriptions DEF LoopEnds, MainCloses, Closed
  <2> QED
    BY <1>12, <2>1 DEF LoopEnds, MainCloses, GoTo, options, names, address, Past
<1>13. ~OptionF /\ ~OtherOption /\ ~EndOptions
  BY DEF OptionF, OtherOption, EndOptions, getopt
<1> QED
  BY <1>3, <1>4, <1>5, <1>6, <1>7, <1>8, <1>9, <1>10, <1>11, <1>12, <1>13 DEF Next

LEMMA FirstSteps ==
    ASSUME Next, pc = "options"
    PROVE  OptionF \/ OtherOption \/ EndOptions
  BY DEF Next, RefuseArguments, TakeArguments, real_address, AddressFails, OpenSocket, OpenSocketFails,
         NameSocket, NameSocketFails, SocketWithoutPort, OpenOutput, LoopEnds, MainCloses

(* Without option. *)
LEMMA StandardKept ==
    ASSUME LaunchInv, Next,
           NEW h \in Strings, NEW p \in Strings, h \notin {"-f", "-x"}, p \notin {"-f", "-x"},
           line = <<h, p>>, Standard(h, p)
    PROVE  Standard(h, p)'
<1>1. Len(line) = 2 /\ line[1] = h /\ line[2] = p /\ DOMAIN line = 1 .. 2
  OBVIOUS
<1>4. <<>> \o <<>> \o SubSeq(<<h, p>>, 1, 2) = <<h, p>>
  <2>1. Gathers(h, h, h, p)
    BY Orders
  <2> QED
    BY <2>1 DEF Gathers
<1>2. CASE pc = "options"
  <2>1. optind = 1 /\ argv = <<>> /\ others = <<>> /\ file_d = 0 /\ file_name = 0
    BY <1>2 DEF Standard
  <2>2. ~OptionF /\ ~OtherOption
    <3>1. \A k \in 1 .. 2 : line[k] \notin {"-f", "-x"}
      BY <1>1
    <3>2. 1 .. Len(line) - 1 \subseteq 1 .. 2
      BY <1>1
    <3> QED
      BY <1>1, <3>1, <3>2 DEF OptionF, OtherOption
  <2>3. EndOptions
    BY <1>2, <2>2, FirstSteps
  <2>4. argv' = <<h, p>>
    <3>1. argv' = <<>> \o <<>> \o SubSeq(<<h, p>>, 1, 2)
      BY <1>1, <2>1, <2>3 DEF EndOptions
    <3> QED
      BY <1>4, <3>1
  <2>5. pc' = "arguments" /\ file_d' = 0 /\ file_name' = 0
    BY <2>1, <2>3 DEF EndOptions, files, names
  <2> QED
    BY <2>4, <2>5 DEF Standard, Addressed
<1>3. CASE pc # "options"
  <2>1. /\ UNCHANGED <<program, argv, file_d, bytes, file_name>> /\ pc' # "options"
        /\ argv = <<h, p>> /\ file_d = 0 /\ file_name = 0
    BY <1>3, Onward DEF Standard
  <2>2. ASSUME TakeArguments
        PROVE  IF program = "sender" \/ bytes = EmptyString
               THEN host' = h /\ pc' = "address" /\ port' = atoi(p)
               ELSE host' = NULL
    <3>1. argc = 3 /\ argv[1] = h /\ argv[2] = p
      BY <2>1 DEF argc
    <3>2. /\ host' \in Argument(HostIndex)
          /\ \E word \in Argument(HostIndex + 1) : word # NULL => pc' = "address" /\ port' = atoi(word)
      BY <2>2 DEF TakeArguments
    <3>3. CASE program = "sender" \/ bytes = EmptyString
      <4>1. HostIndex = 1
        BY <2>1, <3>3 DEF HostIndex, WithFile, FileName, LaunchInv, Shape
      <4>2. Argument(1) = {h} /\ Argument(2) = {p}
        BY <3>1 DEF Argument
      <4> QED
        BY <3>2, <3>3, <4>1, <4>2, NullAssumption
    <3>4. CASE program # "sender" /\ bytes # EmptyString
      <4>1. HostIndex = 3
        BY <2>1, <3>4 DEF HostIndex, WithFile, FileName
      <4>2. Argument(3) = {NULL}
        BY <3>1 DEF Argument
      <4> QED
        BY <3>2, <3>4, <4>1, <4>2
    <3> QED
      BY <3>3, <3>4
  <2>3. ASSUME OpenOutput, pc' = "loop", pc = "output", program = "receiver" PROVE receiver_fd' = 1
    <3>1. FileName = EmptyString
      BY <2>1, <2>3 DEF Standard, Addressed, FileName
    <3> QED
      BY <2>3, <3>1 DEF OpenOutput
  <2>4. pc' \in Addressed =>
          IF program = "sender" \/ bytes = EmptyString THEN host' = h /\ port' = atoi(p)
          ELSE host' = NULL /\ pc' = "address"
    BY <1>3, <2>2, Onward DEF Standard, Addressed, Past
  <2>5. program = "receiver" /\ pc' = "loop" => receiver_fd' = 1
    BY <1>3, <2>3, Onward DEF Past
  <2>6. pc' = "crashed" => TakesBytesForName'
    <3>1. program \in {"sender", "receiver"}
      BY DEF LaunchInv, Shape
    <3> QED
      BY <1>3, <2>1, <2>2, <3>1, Onward DEF TakesBytesForName
  <2> QED
    BY <2>1, <2>4, <2>5, <2>6 DEF Standard
<1> QED
  BY <1>2, <1>3

(* With a name: the turn of getopt that meets the option, the end of the    *)
(* options, and what follows.                                              *)
LEMMA OptionOnce ==
    ASSUME LaunchInv, Next, pc = "options",
           NEW n \in Strings, NEW h \in Strings, NEW p \in Strings,
           {n, h, p} \cap {"-f", "-x"} = {}, FollowsUsageWith(n, h, p),
           optind = 1, argv = <<>>, others = <<>>, file_name = 0
    PROVE  WithName(n, h, p)'
<1>0. n # "-f" /\ n # "-x" /\ h # "-f" /\ h # "-x" /\ p # "-f" /\ p # "-x"
  OBVIOUS
<1>1. PICK f \in Strings : f = "-f" /\ Gathers(f, n, h, p)
  BY LinesAssumption, Orders
<1>2. PICK at \in 1 .. 3 :
         /\ line[at] = "-f" /\ line[at + 1] = n /\ Len(line) = 4 /\ DOMAIN line = 1 .. 4
         /\ \A k \in 1 .. 4 : line[k] \in {"-f", "-x"} => k = at
         /\ \/ at = 3 /\ line = <<h, p, "-f", n>>
            \/ at = 2 /\ line = <<h, "-f", n, p>>
            \/ at = 1 /\ line = <<"-f", n, h, p>>
  <2>1. CASE line = <<h, p, "-f", n>>
    <3>1. Len(line) = 4 /\ DOMAIN line = 1 .. 4 /\ line[1] = h /\ line[2] = p /\ line[3] = "-f" /\ line[4] = n
      BY <2>1
    <3>2. \A k \in 1 .. 4 : line[k] \in {"-f", "-x"} => k = 3
      BY <1>0, <3>1
    <3> QED
      BY <2>1, <3>1, <3>2
  <2>2. CASE line = <<h, "-f", n, p>>
    <3>1. Len(line) = 4 /\ DOMAIN line = 1 .. 4 /\ line[1] = h /\ line[2] = "-f" /\ line[3] = n /\ line[4] = p
      BY <2>2
    <3>2. \A k \in 1 .. 4 : line[k] \in {"-f", "-x"} => k = 2
      BY <1>0, <3>1
    <3> QED
      BY <2>2, <3>1, <3>2
  <2>3. CASE line = <<"-f", n, h, p>>
    <3>1. Len(line) = 4 /\ DOMAIN line = 1 .. 4 /\ line[1] = "-f" /\ line[2] = n /\ line[3] = h /\ line[4] = p
      BY <2>3
    <3>2. \A k \in 1 .. 4 : line[k] \in {"-f", "-x"} => k = 1
      BY <1>0, <3>1
    <3> QED
      BY <2>3, <3>1, <3>2
  <2> QED
    BY <2>1, <2>2, <2>3 DEF FollowsUsageWith
<1>3. OptionF
  <2>1. ~EndOptions
    BY <1>2 DEF EndOptions, IsOption
  <2>2. ~OtherOption
    BY <1>2 DEF OtherOption
  <2> QED
    BY <2>1, <2>2, FirstSteps
<1>4. /\ line[at + 1] = n /\ others' = others \o SubSeq(line, optind, at - 1) /\ optind' = at + 2
      /\ argv' = argv \o <<"-f", n>> /\ pc' = "options" /\ UNCHANGED <<program, line, pc>>
      /\ IF program = "sender"
         THEN file_d' = -1 \/ \E d \in Fd : Opened(d, File(n)) /\ file_d' = d
         ELSE file_name' = Len(argv')
  <2>1. PICK k \in 1 .. Len(line) - 1 :
           /\ line[k] = "-f" /\ getopt(k, 2) /\ argv' = argv \o <<"-f", line[k + 1]>>
           /\ IF program = "sender"
              THEN file_d' = -1 \/ \E d \in Fd : Opened(d, File(line[k + 1])) /\ file_d' = d
              ELSE file_name' = Len(argv')
           /\ UNCHANGED <<program, line, pc>>
    BY <1>3 DEF OptionF
  <2>2. k = at
    BY <1>2, <2>1
  <2> QED
    BY <1>2, <2>1, <2>2 DEF getopt
<1>5. argv' = <<"-f", n>> /\ Len(argv') = 2
  <2>1. <<>> \o <<f, n>> = <<f, n>>
    BY <1>1 DEF Gathers
  <2> QED
    BY <1>1, <1>4, <2>1
<1>6. Found(n)'
  <2>1. CASE program = "receiver"
    BY <1>4, <1>5, <2>1 DEF Found, LaunchInv, Shape
  <2>2. ASSUME program = "sender", fds'[0] = Stdin
        PROVE  file_d' = -1 \/ (file_d' \in Fd \ {0} /\ fds'[file_d'] = File(n))
    <3>1. CASE file_d' = -1
      BY <3>1
    <3>2. CASE \E d \in Fd : Opened(d, File(n)) /\ file_d' = d
      <4>1. PICK d \in Fd : Opened(d, File(n)) /\ file_d' = d
        BY <3>2
      <4>2. fds' = [fds EXCEPT ![d] = File(n)] /\ fds \in [Fd -> Description \cup {NULL}]
        BY <4>1 DEF Opened, LaunchInv, Shape
      <4>3. fds'[d] = File(n)
        BY <4>2
      <4>4. d # 0
        BY <2>2, <4>3, Descriptions
      <4> QED
        BY <4>1, <4>3, <4>4
    <3> QED
      BY <1>4, <2>2, <3>1, <3>2
  <2> QED
    BY <1>4, <2>1, <2>2 DEF Found, LaunchInv, Shape
<1>7. \/ line' = <<h, p, "-f", n>> /\ optind' = 5 /\ others' = <<h, p>>
      \/ line' = <<h, "-f", n, p>> /\ optind' = 4 /\ others' = <<h>>
      \/ line' = <<"-f", n, h, p>> /\ optind' = 3 /\ others' = <<>>
  <2>1. CASE at = 3
    <3>1. others' = <<>> \o SubSeq(<<h, p, f, n>>, 1, 2)
      BY <1>1, <1>2, <1>4, <2>1
    <3>2. others' = <<h, p>>
      BY <1>1, <3>1 DEF Gathers
    <3>3. line = <<h, p, "-f", n>> /\ optind' = 5
      <4>1. line = <<h, p, "-f", n>>
        BY <1>2, <2>1
      <4> QED
        BY <1>4, <2>1, <4>1
    <3> QED
      BY <1>4, <3>2, <3>3
  <2>2. CASE at = 2
    <3>1. others' = <<>> \o SubSeq(<<h, f, n, p>>, 1, 1)
      BY <1>1, <1>2, <1>4, <2>2
    <3>2. others' = <<h>>
      BY <1>1, <3>1 DEF Gathers
    <3>3. line = <<h, "-f", n, p>> /\ optind' = 4
      <4>1. line = <<h, "-f", n, p>>
        BY <1>2, <2>2
      <4> QED
        BY <1>4, <2>2, <4>1
    <3> QED
      BY <1>4, <3>2, <3>3
  <2>3. CASE at = 1
    <3>1. others' = <<>> \o SubSeq(<<f, n, h, p>>, 1, 0)
      BY <1>1, <1>2, <1>4, <2>3
    <3>2. others' = <<>>
      BY <1>1, <3>1 DEF Gathers
    <3> QED
      BY <1>2, <1>4, <2>3, <3>2
  <2> QED
    BY <2>1, <2>2, <2>3
<1> QED
  BY <1>4, <1>5, <1>6, <1>7 DEF WithName, Addressed

LEMMA OptionsEnd ==
    ASSUME LaunchInv, Next, pc = "options",
           NEW n \in Strings, NEW h \in Strings, NEW p \in Strings,
           {n, h, p} \cap {"-f", "-x"} = {},
           argv = <<"-f", n>>, Found(n),
           \/ line = <<h, p, "-f", n>> /\ optind = 5 /\ others = <<h, p>>
           \/ line = <<h, "-f", n, p>> /\ optind = 4 /\ others = <<h>>
           \/ line = <<"-f", n, h, p>> /\ optind = 3 /\ others = <<>>
    PROVE  WithName(n, h, p)'
<1>0. n # "-f" /\ n # "-x" /\ h # "-f" /\ h # "-x" /\ p # "-f" /\ p # "-x"
  OBVIOUS
<1>1. PICK f \in Strings : f = "-f" /\ Gathers(f, n, h, p)
  BY LinesAssumption, Orders
<1>2. Len(line) = 4 /\ DOMAIN line = 1 .. 4 /\ \A k \in optind .. 4 : line[k] \notin {"-f", "-x"}
  <2>1. CASE line = <<h, p, "-f", n>> /\ optind = 5
    BY <2>1
  <2>2. CASE line = <<h, "-f", n, p>> /\ optind = 4
    <3>1. Len(line) = 4 /\ DOMAIN line = 1 .. 4 /\ line[4] = p
      BY <2>2
    <3> QED
      BY <1>0, <2>2, <3>1
  <2>3. CASE line = <<"-f", n, h, p>> /\ optind = 3
    <3>1. Len(line) = 4 /\ DOMAIN line = 1 .. 4 /\ line[3] = h /\ line[4] = p
      BY <2>3
    <3> QED
      BY <1>0, <2>3, <3>1
  <2> QED
    BY <2>1, <2>2, <2>3
<1>3. EndOptions
  <2>1. ~OptionF
    BY <1>2 DEF OptionF, getopt, IsNextOption
  <2>2. ~OtherOption
    BY <1>2 DEF OtherOption, getopt, IsNextOption
  <2> QED
    BY <2>1, <2>2, FirstSteps
<1>4. /\ argv' = argv \o others \o SubSeq(line, optind, Len(line)) /\ pc' = "arguments"
      /\ UNCHANGED <<program, file_d, file_name, fds>>
  BY <1>3 DEF EndOptions, files, names
<1>5. argv' = <<"-f", n, h, p>>
  <2>1. CASE line = <<h, p, "-f", n>> /\ optind = 5 /\ others = <<h, p>>
    <3>1. argv' = <<f, n>> \o <<h, p>> \o SubSeq(<<h, p, f, n>>, 5, 4)
      BY <1>1, <1>2, <1>4, <2>1
    <3> QED
      BY <1>1, <3>1 DEF Gathers
  <2>2. CASE line = <<h, "-f", n, p>> /\ optind = 4 /\ others = <<h>>
    <3>1. argv' = <<f, n>> \o <<h>> \o SubSeq(<<h, f, n, p>>, 4, 4)
      BY <1>1, <1>2, <1>4, <2>2
    <3> QED
      BY <1>1, <3>1 DEF Gathers
  <2>3. CASE line = <<"-f", n, h, p>> /\ optind = 3 /\ others = <<>>
    <3>1. argv' = <<f, n>> \o <<>> \o SubSeq(<<f, n, h, p>>, 3, 4)
      BY <1>1, <1>2, <1>4, <2>3
    <3> QED
      BY <1>1, <3>1 DEF Gathers
  <2> QED
    BY <2>1, <2>2, <2>3
<1>6. Found(n)'
  BY <1>4 DEF Found, Past
<1> QED
  BY <1>4, <1>5, <1>6 DEF WithName, Addressed

LEMMA AfterOptions ==
    ASSUME LaunchInv, LaunchInv', Next, pc # "options",
           NEW n \in Strings, NEW h \in Strings, NEW p \in Strings, n # EmptyString,
           WithName(n, h, p)
    PROVE  WithName(n, h, p)'
<1>1. /\ UNCHANGED <<program, argv, file_d, bytes, file_name>> /\ pc' # "options"
      /\ argv = <<"-f", n, h, p>> /\ Found(n) /\ program \in {"sender", "receiver"}
      /\ fds'[0] = Stdin => fds[0] = Stdin
      /\ pc' \notin Past => \A c \in Fd : fds[c] \in {NULL, fds'[c]}
  BY Onward DEF WithName, LaunchInv, Shape
<1>2. Found(n)'
  <2>1. CASE program = "receiver"
    BY <1>1, <2>1 DEF Found
  <2>2. CASE program = "sender"
    <3> SUFFICES ASSUME fds'[0] = Stdin, pc' \notin Past
                 PROVE  file_d' = -1 \/ (file_d' \in Fd \ {0} /\ fds'[file_d'] = File(n))
      BY <1>1, <2>2 DEF Found
    <3>1. pc \notin Past
      BY <1>1, Onward DEF Past, TakeArguments
    <3>2. file_d = -1 \/ (file_d \in Fd \ {0} /\ fds[file_d] = File(n))
      BY <1>1, <2>2, <3>1 DEF Found
    <3>3. file_d \in Fd /\ fds[file_d] = File(n) => fds'[file_d] = File(n)
      BY <1>1, Descriptions
    <3> QED
      BY <1>1, <3>2, <3>3
  <2> QED
    BY <1>1, <2>1, <2>2
<1>3. ASSUME TakeArguments, fds[0] = Stdin PROVE host' = h /\ pc' = "address" /\ port' = atoi(p)
  <2>1. argc = 5 /\ argv[2] = n /\ argv[3] = h /\ argv[4] = p
    BY <1>1 DEF argc
  <2>2. HostIndex = 3
    <3>1. pc \notin Past
      BY <1>3 DEF TakeArguments, Past
    <3>2. CASE program = "receiver"
      BY <1>1, <2>1, <3>2 DEF Found, HostIndex, WithFile, FileName
    <3>3. CASE program = "sender"
      BY <1>1, <1>3, <3>1, <3>3 DEF Found, HostIndex, WithFile
    <3> QED
      BY <1>1, <3>2, <3>3
  <2>3. Argument(3) = {h} /\ Argument(4) = {p} /\ p # NULL
    BY <2>1, NullAssumption DEF Argument
  <2> QED
    BY <1>3, <2>2, <2>3 DEF TakeArguments
<1>4. ASSUME OpenOutput, program = "receiver" PROVE receiver_fd' = -1 \/ fds'[receiver_fd'] = File(n)
  <2>1. FileName = n
    BY <1>1, <1>4 DEF Found, FileName
  <2>2. CASE \E d \in Fd : Opened(d, File(n)) /\ receiver_fd' = d
    <3>1. PICK d \in Fd : Opened(d, File(n)) /\ receiver_fd' = d
      BY <2>2
    <3>2. fds' = [fds EXCEPT ![d] = File(n)] /\ fds \in [Fd -> Description \cup {NULL}]
      BY <3>1 DEF Opened, LaunchInv, Shape
    <3> QED
      BY <3>1, <3>2
  <2> QED
    BY <1>4, <2>1, <2>2 DEF OpenOutput
<1>5. pc' \in Addressed /\ fds'[0] = Stdin => host' = h /\ port' = atoi(p)
  BY <1>1, <1>3, Onward DEF WithName, Addressed, Past
<1>6. program = "receiver" /\ pc' = "loop" => receiver_fd' = -1 \/ fds'[receiver_fd'] = File(n)
  BY <1>4, Onward DEF Past
<1>7. pc' = "crashed" => fds'[0] # Stdin
  BY <1>1, <1>3, Onward
<1> QED
  BY <1>1, <1>2, <1>5, <1>6, <1>7 DEF WithName

LEMMA InitUsage == Init => UsageInv
  BY DEF Init, UsageInv, Standard, WithName, Addressed

LEMMA UsageKept ==
    ASSUME LaunchInv, LaunchInv', UsageInv, Next
    PROVE  UsageInv'
<1>1. line' = line /\ line \in Lines
  <2>1. pc = "options" => line' = line
    BY FirstSteps DEF OptionF, OtherOption, EndOptions
  <2> QED
    BY <2>1, Onward DEF LaunchInv, Shape
<1>2. \A w \in Words : w \in Strings /\ w # "-f" /\ w # "-x"
  BY <1>1, WordsAreNoOptions
<1>3. ASSUME NEW h \in Words, NEW p \in Words, line = <<h, p>>
      PROVE  Standard(h, p)'
  <2>1. Standard(h, p)
    BY <1>3 DEF UsageInv, FollowsUsage
  <2> QED
    BY <1>2, <1>3, <2>1, StandardKept
<1>4. ASSUME NEW h \in Words, NEW p \in Words, NEW n \in Words \ {EmptyString}, FollowsUsageWith(n, h, p)
      PROVE  WithName(n, h, p)'
  <2>1. WithName(n, h, p) /\ {n, h, p} \cap {"-f", "-x"} = {}
    BY <1>2, <1>4 DEF UsageInv
  <2>2. n \in Strings /\ h \in Strings /\ p \in Strings /\ n # EmptyString
    BY <1>2
  <2>3. CASE pc = "options" /\ optind = 1 /\ argv = <<>> /\ others = <<>> /\ file_name = 0
    BY <1>4, <2>1, <2>2, <2>3, OptionOnce
  <2>4. CASE /\ pc = "options" /\ argv = <<"-f", n>> /\ Found(n)
             /\ \/ line = <<h, p, "-f", n>> /\ optind = 5 /\ others = <<h, p>>
                \/ line = <<h, "-f", n, p>> /\ optind = 4 /\ others = <<h>>
                \/ line = <<"-f", n, h, p>> /\ optind = 3 /\ others = <<>>
    BY <2>1, <2>2, <2>4, OptionsEnd
  <2>5. CASE pc # "options"
    BY <2>1, <2>2, <2>5, AfterOptions
  <2> QED
    BY <2>1, <2>3, <2>4, <2>5 DEF WithName
<1> QED
  BY <1>1, <1>3, <1>4 DEF UsageInv, FollowsUsage, FollowsUsageWith, Words

LEMMA UsageFollows == LaunchInv /\ UsageInv => UsageUnderstood
<1> SUFFICES ASSUME LaunchInv, UsageInv, NEW h \in Words, NEW p \in Words
             PROVE  /\ FollowsUsage(h, p) =>
                          IF TakesBytesForName THEN pc \notin Addressed \ {"address"}
                          ELSE /\ Understood(h, p)
                               /\ pc = "loop" => Used = IF program = "sender" THEN 0 ELSE 1
                    /\ \A n \in Words \ {EmptyString} : FollowsUsageWith(n, h, p) /\ fds[0] = Stdin =>
                          /\ Understood(h, p)
                          /\ pc = "loop" => Used = -1 \/ fds[Used] = File(n)
  BY DEF UsageUnderstood
<1>1. program \in {"sender", "receiver"} /\ bytes \in Uninitialised /\ atoi(p) \in {0, 7777, 73313}
  BY DEF LaunchInv, Shape, atoi
<1>2. pc = "loop" => /\ fds[socket_fd] = Socket
                     /\ endpoint = IF port > 0 THEN [host |-> host, port |-> htons(port)] ELSE NULL
  BY DEF LaunchInv, Named, Descriptors, Ready
<1>3. ASSUME pc = "arguments" => ~TooMany /\ ~TooFew, pc \in Addressed => host = h /\ port = atoi(p),
             pc # "crashed"
      PROVE  Understood(h, p)
  <2>1. pc = "loop" => /\ fds[socket_fd] = Socket
                       /\ endpoint = IF atoi(p) = 0 THEN NULL ELSE [host |-> h, port |-> htons(atoi(p))]
    BY <1>1, <1>2, <1>3 DEF Addressed
  <2> QED
    BY <1>3, <2>1 DEF Understood
<1>4. ASSUME FollowsUsage(h, p), TakesBytesForName
      PROVE  pc \notin Addressed \ {"address"}
  BY <1>4 DEF UsageInv, Standard, TakesBytesForName
<1>5. ASSUME FollowsUsage(h, p), ~TakesBytesForName
      PROVE  Understood(h, p) /\ (pc = "loop" => Used = IF program = "sender" THEN 0 ELSE 1)
  <2>1. Standard(h, p) /\ file_d = 0 /\ (program = "sender" \/ bytes = EmptyString)
    BY <1>1, <1>5 DEF UsageInv, Standard, TakesBytesForName
  <2>2. pc = "arguments" => ~TooMany /\ ~TooFew
    <3> SUFFICES ASSUME pc = "arguments" PROVE ~TooMany /\ ~TooFew
      OBVIOUS
    <3>1. argv = <<h, p>>
      BY <2>1 DEF Standard
    <3>2. argc = 3
      BY <3>1 DEF argc
    <3> QED
      BY <2>1, <3>2 DEF TooMany, TooFew, MIN_ARGUMENT, MAX_ARGUMENT
  <2>3. pc \in Addressed => host = h /\ port = atoi(p)
    BY <2>1 DEF Standard
  <2>4. pc # "crashed"
    BY <1>5, <2>1 DEF Standard
  <2>5. pc = "loop" => Used = IF program = "sender" THEN 0 ELSE 1
    <3>1. pc = "loop" /\ program = "receiver" => receiver_fd = 1
      BY <2>1 DEF Standard
    <3>2. CASE program = "sender"
      BY <2>1, <3>2 DEF Used
    <3>3. CASE program = "receiver"
      BY <3>1, <3>3 DEF Used
    <3> QED
      BY <1>1, <3>2, <3>3
  <2> QED
    BY <1>3, <2>2, <2>3, <2>4, <2>5
<1>6. ASSUME NEW n \in Words \ {EmptyString}, FollowsUsageWith(n, h, p), fds[0] = Stdin
      PROVE  Understood(h, p) /\ (pc = "loop" => Used = -1 \/ fds[Used] = File(n))
  <2>1. WithName(n, h, p)
    BY <1>6 DEF UsageInv
  <2>2. pc = "arguments" => ~TooMany /\ ~TooFew
    <3> SUFFICES ASSUME pc = "arguments" PROVE ~TooMany /\ ~TooFew
      OBVIOUS
    <3>1. argv = <<"-f", n, h, p>>
      BY <2>1 DEF WithName
    <3>2. argc = 5
      BY <3>1 DEF argc
    <3> QED
      BY <3>2 DEF TooMany, TooFew, MIN_ARGUMENT, MAX_ARGUMENT
  <2>3. pc \in Addressed => host = h /\ port = atoi(p)
    BY <1>6, <2>1 DEF WithName
  <2>4. pc # "crashed"
    BY <1>6, <2>1 DEF WithName
  <2>5. pc = "loop" => Used = -1 \/ fds[Used] = File(n)
    BY <1>1, <1>6, <2>1 DEF WithName, Found, Used, Past
  <2> QED
    BY <1>3, <2>2, <2>3, <2>4, <2>5
<1> QED
  BY <1>4, <1>5, <1>6

(* The usage texts, for command lines with any words.  HOST PORT: the       *)
(* program does not refuse the line nor crash, and the loop has a socket    *)
(* for that host and port, and the standard input or output; but a receiver *)
(* that finds a name in the bytes it did not initialise never comes to a    *)
(* socket.  HOST PORT and -f NAME, in any of the three orders, with an open *)
(* standard input: the same without the exception, with the file NAME, or   *)
(* -1 if open() failed.                                                     *)
THEOREM UsageHolds == Spec => []UsageUnderstood
<1>1. Init => LaunchInv /\ UsageInv
  BY InitLaunch, InitUsage
<1>2. LaunchInv /\ LaunchInv' /\ UsageInv /\ [Next]_vars => UsageInv'
  <2>1. UsageInv /\ UNCHANGED vars => UsageInv'
    <3> SUFFICES ASSUME UsageInv, UNCHANGED vars PROVE UsageInv'
      OBVIOUS
    <3>1. UNCHANGED <<program, line, optind, argv, others, file_d, bytes, file_name, receiver_fd, fds,
                      host, port, pc>>
      BY DEF vars, options, files, names, address
    <3>2. ASSUME NEW h, NEW p, Standard(h, p) PROVE Standard(h, p)'
      BY <3>1, <3>2 DEF Standard, TakesBytesForName
    <3>3. ASSUME NEW n, NEW h, NEW p, WithName(n, h, p) PROVE WithName(n, h, p)'
      BY <3>1, <3>3 DEF WithName, Found
    <3>4. Words' = Words
      BY <3>1 DEF Words
    <3> QED
      BY <3>1, <3>2, <3>3, <3>4 DEF UsageInv, FollowsUsage, FollowsUsageWith
  <2> QED
    BY <2>1, UsageKept
<1>3. Spec => []UsageInv
  BY <1>1, <1>2, LaunchInvariant, PTL DEF Spec
<1> QED
  BY <1>3, UsageFollows, LaunchInvariant, PTL
=============================================================================
