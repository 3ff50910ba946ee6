------------------------------- MODULE Launch -------------------------------
(***************************************************************************)
(* The two programs before and after their loops: the main functions of    *)
(* sender.c and receiver.c, real_address, create_socket, the descriptors    *)
(* they open and close.  Modules Sender and Receiver start where this one   *)
(* is at "loop".                                                           *)
(*                                                                         *)
(* A command line is the sequence of what follows the name of the program, *)
(* so that line[k] is argv[k].                                             *)
(***************************************************************************)
EXTENDS Integers, Sequences

CONSTANTS
    Strings,    \* words and names
    Lines,      \* command lines
    MaxFd,      \* descriptors a process may have (1023), a bound
    NULL        \* a free descriptor; a null pointer

EmptyString == ""

ASSUME LinesAssumption == {EmptyString, "?", "-f", "-x"} \subseteq Strings /\ Lines \subseteq Seq(Strings)
ASSUME MaxFdAssumption == MaxFd \in Nat /\ MaxFd >= 3

(* What a descriptor is open on. *)
Description == [kind : {"stdin", "output", "socket", "file"}, name : Strings]

ASSUME NullAssumption == NULL \notin Description \cup Strings

Stdin      == [kind |-> "stdin", name |-> EmptyString]
Output     == [kind |-> "output", name |-> EmptyString]
Socket     == [kind |-> "socket", name |-> EmptyString]
File(name) == [kind |-> "file", name |-> name]

MIN_ARGUMENT == 3
MAX_ARGUMENT == 5
UShortRange  == 65536

VARIABLES
    program,     \* "sender" or "receiver"
    line,        \* its command line
    optind,      \* how far getopt looked in it
    argv,        \* the options it found; at the end, all of argv, options first
    others,      \* the arguments it left for the end
    file_d,      \* sender: the descriptor of the input
    bytes,       \* receiver: the string in the 64 bytes of malloc
    file_name,   \* receiver: 0: points to them; k: points to argv[k]
    receiver_fd, \* receiver: the descriptor of the output
    fds,         \* the descriptors of the process and what they are open on
    host, port,  \* what main takes for the host and the port
    socket_fd,   \* the descriptor that create_socket returns
    endpoint,    \* what the socket is connected (sender) or bound (receiver) to
    pc           \* where the program is; "success", "failure", "crashed": ended

options == <<optind, argv, others>>
names   == <<bytes, file_name>>
files   == <<file_d, names, receiver_fd, fds>>
address == <<host, port>>
sockets == <<socket_fd, endpoint>>
vars    == <<program, line, options, files, address, sockets, pc>>

Fd == 0 .. MaxFd

(* malloc(64) does not initialise its bytes: the first is 0 or not.         *)
Uninitialised == {EmptyString, "?"}

(* Standard input may have been closed by whoever starts the program.       *)
Init ==
    /\ program \in {"sender", "receiver"}
    /\ line \in Lines
    /\ optind = 1 /\ argv = <<>> /\ others = <<>>
    /\ file_d = 0
    /\ bytes \in IF program = "receiver" THEN Uninitialised ELSE {EmptyString}
    /\ file_name = 0
    /\ receiver_fd = -1
    /\ \E stdin \in {Stdin, NULL} :
          fds = [d \in Fd |-> IF d = 0 THEN stdin ELSE IF d <= 2 THEN Output ELSE NULL]
    /\ host = NULL /\ port = 0
    /\ socket_fd = -1 /\ endpoint = NULL
    /\ pc = "options"

----------------------------------------------------------------------------
(* Descriptors: the lowest that is free is taken. *)
IsLowestFree(d) == fds[d] = NULL /\ \A c \in Fd : c < d => fds[c] # NULL

Opened(d, what) == IsLowestFree(d) /\ fds' = [fds EXCEPT ![d] = what]

Closed(table, d) == [c \in Fd |-> IF c = d THEN NULL ELSE table[c]]

----------------------------------------------------------------------------
(* getopt(argc, argv, "f:") of the GNU library, which leaves what is no     *)
(* option for the end: one turn of the loop of main.  A name glued to its   *)
(* -f is left out.                                                         *)
IsOption(word) == word \in {"-f", "-x"}

IsNextOption(k) ==
    /\ k \in optind .. Len(line) /\ IsOption(line[k])
    /\ \A j \in optind .. k - 1 : ~IsOption(line[j])

getopt(k, words) ==
    /\ pc = "options" /\ IsNextOption(k)
    /\ others' = others \o SubSeq(line, optind, k - 1)
    /\ optind' = k + words

(* case 'f' *)
OptionF ==
    \E k \in 1 .. Len(line) - 1 :
        /\ line[k] = "-f"
        /\ getopt(k, 2)
        /\ argv' = argv \o <<"-f", line[k + 1]>>
        /\ IF program = "sender"
           THEN /\ UNCHANGED file_name
                /\ \/ file_d' = -1 /\ UNCHANGED fds      \* open() fails
                   \/ \E d \in Fd : Opened(d, File(line[k + 1])) /\ file_d' = d
           ELSE file_name' = Len(argv') /\ UNCHANGED <<file_d, fds>>
        /\ UNCHANGED <<program, line, bytes, receiver_fd, address, sockets, pc>>

(* default: an option that is not known, or -f without its name.  The       *)
(* receiver makes the string empty that file_name points to.                *)
OtherOption ==
    \E k \in DOMAIN line :
        /\ line[k] = "-x" \/ (line[k] = "-f" /\ k = Len(line))
        /\ getopt(k, 1)
        /\ IF file_name = 0
           THEN bytes' = EmptyString /\ argv' = Append(argv, line[k])
           ELSE argv' = Append([argv EXCEPT ![file_name] = EmptyString], line[k]) /\ UNCHANGED bytes
        /\ UNCHANGED <<program, line, file_d, file_name, receiver_fd, fds, address, sockets, pc>>

EndOptions ==
    /\ pc = "options"
    /\ \A k \in optind .. Len(line) : ~IsOption(line[k])
    /\ argv' = argv \o others \o SubSeq(line, optind, Len(line))
    /\ pc' = "arguments"
    /\ UNCHANGED <<program, line, optind, others, files, address, sockets>>

----------------------------------------------------------------------------
(* The arguments. *)
argc == Len(argv) + 1

TooMany == argc > MAX_ARGUMENT

Mutant_NamesNotCounted == argc < MIN_ARGUMENT

TooFew == \/ argc < MIN_ARGUMENT
          \/ program = "sender" /\ file_d # 0 /\ argc < MAX_ARGUMENT

FileName == IF file_name = 0 THEN bytes ELSE argv[file_name]

WithFile == IF program = "sender" THEN file_d # 0 ELSE FileName # EmptyString

Mutant_AfterTheOption == IF WithFile THEN 2 ELSE 1

HostIndex == IF WithFile THEN 3 ELSE 1

(* argv ends with a null pointer, and the environment follows.              *)
Argument(k) ==
    IF k < argc THEN {argv[k]} ELSE IF k = argc THEN {NULL} ELSE {NULL, "VAR=value"}

atoi(word) == IF word = "7777" THEN 7777 ELSE IF word = "73313" THEN 73313 ELSE 0

RefuseArguments ==
    /\ pc = "arguments"
    /\ TooMany \/ TooFew
    /\ pc' = "failure"
    /\ UNCHANGED <<program, line, options, files, address, sockets>>

TakeArguments ==
    /\ pc = "arguments"
    /\ ~TooMany /\ ~TooFew
    /\ host' \in Argument(HostIndex)
    /\ \E word \in Argument(HostIndex + 1) :
          IF word = NULL THEN pc' = "crashed" /\ UNCHANGED port
          ELSE pc' = "address" /\ port' = atoi(word)
    /\ UNCHANGED <<program, line, options, files, sockets>>

----------------------------------------------------------------------------
(* real_address and create_socket. *)
GoTo(label) ==
    /\ pc' = label
    /\ UNCHANGED <<program, line, options, file_d, names, address>>

Entry == IF program = "sender" THEN "loop" ELSE "output"

(* getaddrinfo needs a name or a service. *)
real_address ==
    /\ pc = "address" /\ host # NULL
    /\ UNCHANGED <<receiver_fd, fds, sockets>>
    /\ GoTo("socket")

AddressFails ==
    /\ pc = "address"
    /\ UNCHANGED <<receiver_fd, fds, sockets>>
    /\ GoTo("failure")

OpenSocket ==
    /\ pc = "socket"
    /\ \E d \in Fd : Opened(d, Socket) /\ socket_fd' = d
    /\ UNCHANGED <<receiver_fd, endpoint>>
    /\ GoTo("name")

OpenSocketFails ==
    /\ pc = "socket"
    /\ UNCHANGED <<receiver_fd, fds, sockets>>
    /\ GoTo("failure")

Mutant_PortNotCut(n) == n

htons(n) == n % UShortRange

(* bind of the receiver, connect of the sender. *)
NameSocket ==
    /\ pc = "name" /\ port > 0
    /\ endpoint' = [host |-> host, port |-> htons(port)]
    /\ UNCHANGED <<receiver_fd, fds, socket_fd>>
    /\ GoTo(Entry)

Mutant_SocketLeftOpen ==
    /\ pc = "name" /\ port > 0
    /\ UNCHANGED <<receiver_fd, fds, sockets>>
    /\ GoTo("failure")

NameSocketFails ==
    /\ pc = "name" /\ port > 0
    /\ fds' = Closed(fds, socket_fd)
    /\ socket_fd' = -1
    /\ UNCHANGED <<receiver_fd, endpoint>>
    /\ GoTo("failure")

(* Neither bound nor connected. *)
SocketWithoutPort ==
    /\ pc = "name" /\ port <= 0
    /\ UNCHANGED <<receiver_fd, fds, sockets>>
    /\ GoTo(Entry)

----------------------------------------------------------------------------
(* The loops. *)

(* The output of the receiver; a file that cannot be opened does not stop   *)
(* it.                                                                      *)
OpenOutput ==
    /\ pc = "output"
    /\ IF FileName = EmptyString THEN receiver_fd' = 1 /\ UNCHANGED fds
       ELSE \/ \E d \in Fd : Opened(d, File(FileName)) /\ receiver_fd' = d
            \/ receiver_fd' = -1 /\ UNCHANGED fds
    /\ UNCHANGED sockets
    /\ GoTo("loop")

(* Each loop closes its file and its socket, and main the socket again.     *)
LoopEnds ==
    /\ pc = "loop"
    /\ fds' = Closed(Closed(fds, IF program = "sender" THEN file_d ELSE receiver_fd), socket_fd)
    /\ UNCHANGED <<receiver_fd, sockets>>
    /\ GoTo("close")

MainCloses ==
    /\ pc = "close"
    /\ fds' = Closed(fds, socket_fd)
    /\ UNCHANGED <<receiver_fd, sockets>>
    /\ GoTo("success")

Next ==
    \/ OptionF \/ OtherOption \/ EndOptions
    \/ RefuseArguments \/ TakeArguments
    \/ real_address \/ AddressFails
    \/ OpenSocket \/ OpenSocketFails
    \/ NameSocket \/ NameSocketFails \/ SocketWithoutPort
    \/ OpenOutput \/ LoopEnds \/ MainCloses

Spec == Init /\ [][Next]_vars

----------------------------------------------------------------------------
TypeOK ==
    /\ program \in {"sender", "receiver"} /\ line \in Lines
    /\ optind \in 1 .. Len(line) + 1
    /\ Len(argv) + Len(others) <= 2 * Len(line)
    /\ {file_d, receiver_fd, socket_fd} \subseteq Fd \cup {-1}
    /\ file_name \in 0 .. Len(argv)
    /\ fds \in [Fd -> Description \cup {NULL}]
    /\ port \in Int
    /\ endpoint # NULL => endpoint.port \in 0 .. UShortRange - 1
    /\ pc \in {"options", "arguments", "address", "socket", "name", "output", "loop", "close",
              "success", "failure", "crashed"}

(* "Usage: sender HOSTAME PORT [-f FILENAME]", and the same for receiver;   *)
(* the tests put the option first.                                          *)
FollowsUsage(h, p) == line = <<h, p>>

FollowsUsageWith(n, h, p) ==
    line \in {<<h, p, "-f", n>>, <<h, "-f", n, p>>, <<"-f", n, h, p>>}

Words == {line[k] : k \in {j \in DOMAIN line : ~IsOption(line[j])}}

Used == IF program = "sender" THEN file_d ELSE receiver_fd

(* main has the host and the port. *)
Addressed == {"address", "socket", "name", "output", "loop"}

Understood(h, p) ==
    /\ pc = "arguments" => ~TooMany /\ ~TooFew
    /\ pc \in Addressed => host = h /\ port = atoi(p)
    /\ pc = "loop" => /\ fds[socket_fd] = Socket
                      /\ endpoint = IF atoi(p) = 0 THEN NULL
                                    ELSE [host |-> h, port |-> htons(atoi(p))]
    /\ pc # "crashed"

(* Without -f the receiver tests bytes that malloc left as they were.       *)
TakesBytesForName == program = "receiver" /\ bytes # EmptyString

(* The usage texts, in the two forms of a line.  Without -f: the line is    *)
(* not refused, main does not crash, and the loop has a socket for the host *)
(* and the port of the line, and the standard input or output, unless the   *)
(* receiver finds a name in the 64 bytes that it did not initialise: then   *)
(* it goes beyond its arguments, and fails or crashes before it has a       *)
(* socket.  With -f NAME, in the three orders of getopt: the same, with the *)
(* file, or -1 if open() failed, which neither program takes for an error;  *)
(* but only if standard input is open, for the sender does not recognise a  *)
(* file that got the descriptor 0.                                          *)
UsageUnderstood ==
    \A h, p \in Words :
        /\ FollowsUsage(h, p) =>
              IF TakesBytesForName THEN pc \notin Addressed \ {"address"}
              ELSE /\ Understood(h, p)
                   /\ pc = "loop" => Used = IF program = "sender" THEN 0 ELSE 1
        /\ \A n \in Words \ {EmptyString} : FollowsUsageWith(n, h, p) /\ fds[0] = Stdin =>
              /\ Understood(h, p)
              /\ pc = "loop" => Used = -1 \/ fds[Used] = File(n)

(* The sender takes no argument beyond the last (l. 47 of sender.c).  The   *)
(* receiver may, because it does not count with -f.                         *)
SenderStaysInArgv ==
    program = "sender" /\ pc = "arguments" /\ ~TooMany /\ ~TooFew => HostIndex + 1 < argc

(* A program started with an open standard input is in its loop with an     *)
(* open socket apart from its file; started in any way, it leaves no socket *)
(* open where it stops.                                                     *)
SocketsClosed ==
    /\ pc = "loop" /\ fds[0] = Stdin => fds[socket_fd] = Socket /\ Used # socket_fd
    /\ pc \in {"success", "failure", "crashed"} => \A d \in Fd : fds[d] # Socket
=============================================================================
