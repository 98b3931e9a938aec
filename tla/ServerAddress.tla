--------------------------- MODULE ServerAddress ---------------------------
(***************************************************************************)
(* What the server parameter of Connection::connect() and the addresses of *)
(* its three subclasses come to.  A text is a sequence of characters,      *)
(* paths of usable sockets are a set, and what a call reaches is           *)
(* [how, host, port]: the method, the host or path, and the TCP port that  *)
(* are passed to the driver.                                               *)
(***************************************************************************)
EXTENDS TemplateGrammar

CONSTANTS
  MaxPort,   \* USHRT_MAX
  Services   \* [service name -> port]: what getservbyname() knows

ASSUME ServerAddressAssumption ==
  MaxPort \in Nat \ {0} /\ \A s \in DOMAIN Services : Services[s] \in 1..MaxPort

NullPointer == <<"(null)">>

(* isalnum() and the others parse_address() accepts; one letter stands for *)
(* all of them.                                                            *)
HostChars == Digits \cup {"a", ".", "-", ":"}

Colons(text) == {i \in 1..Len(text) : text[i] = ":"}
Brackets(text) == {i \in 1..Len(text) : text[i] \in {"[", "]"}}

-----------------------------------------------------------------------------
(* TCPConnection::parse_address()                                          *)

NoAddress == [ok |-> FALSE, addr |-> <<>>, port |-> 0]

(* The address and the service, taken apart: [address]:service, or         *)
(* address:service with one colon at most.                                 *)
Apart(text) ==
  IF At(text, 1) = "["
  THEN LET end == {i \in 1..Len(text) : text[i] = "]"}
           pos == Min(end)
           inner == SubSeq(text, 2, pos - 1)
       IN IF end = {} \/ At(text, pos + 1) # ":" \/ \E i \in Brackets(text) : i > pos + 1
          THEN [ok |-> FALSE]
          ELSE [ok |-> inner = <<>> \/ Cardinality(Colons(inner)) >= 2,
                addr |-> inner, service |-> SubSeq(text, pos + 2, Len(text))]
  ELSE IF Colons(text) = {} THEN [ok |-> TRUE, addr |-> text, service |-> <<>>]
  ELSE LET pos == Min(Colons(text))
       IN [ok |-> Cardinality(Colons(text)) = 1,
           addr |-> SubSeq(text, 1, pos - 1), service |-> SubSeq(text, pos + 1, Len(text))]

(* The port a service stands for, 0 if it is none: a text that begins with *)
(* a digit is a number as far as it goes.                                  *)
PortOf(service) ==
  IF At(service, 1) \in Digits
  THEN LET n == Number(SubSeq(service, 1, RunEnd(service, 1, Digits) - 1))
       IN IF n \in 1..MaxPort THEN n ELSE 0
  ELSE IF service \in DOMAIN Services THEN Services[service] ELSE 0

(* Seeded fault: the colon stays in front of the service.                  *)
BugParseAddress(text, port) ==
  LET a == Apart(text)
  IN IF a.ok THEN [ok |-> TRUE, addr |-> a.addr, port |-> port] ELSE NoAddress
(* port is kept if the text has no service.                                *)
ParseAddress(text, port) ==
  LET a == Apart(text)
  IN IF /\ a.ok
        /\ a.service = <<>> \/ PortOf(a.service) # 0
        /\ \A i \in 1..Len(a.addr) : a.addr[i] \in HostChars
     THEN [ok |-> TRUE, addr |-> a.addr,
           port |-> IF a.service = <<>> THEN port ELSE PortOf(a.service)]
     ELSE NoAddress

-----------------------------------------------------------------------------
(* The connection classes                                                  *)

Refused == [how |-> "refused", host |-> <<>>, port |-> 0]

IsWnp(server, windows) == windows /\ server = <<".">>

(* is_socket(): the path exists, can be read and written, and is a socket. *)
IsSocket(path, sockets, windows) == ~windows /\ path # NullPointer /\ path \in sockets

ParseIpcMethod(server, port, sockets, windows) ==
  IF server = NullPointer THEN [how |-> "default", host |-> <<>>, port |-> port]
  ELSE IF IsWnp(server, windows) THEN [how |-> "pipe", host |-> server, port |-> port]
  ELSE IF IsSocket(server, sockets, windows)
  THEN [how |-> "socket", host |-> server, port |-> port]
  ELSE LET a == ParseAddress(server, port)
       IN IF a.ok THEN [how |-> "tcp", host |-> a.addr, port |-> a.port] ELSE Refused

(* TCPConnection::connect() takes the address apart, and                   *)
(* Connection::connect() does it again with what is left of it.            *)
TcpConnect(addr, sockets, windows) ==
  LET a == IF addr = NullPointer THEN ParseAddress(<<>>, 0) ELSE ParseAddress(addr, 0)
  IN IF a.ok THEN ParseIpcMethod(a.addr, a.port, sockets, windows) ELSE Refused

(* UnixDomainSocketConnection::connect() looks at the path, and            *)
(* Connection::connect() looks again: the sockets may have changed.        *)
UdsConnect(path, sockets, later, windows) ==
  IF IsSocket(path, sockets, windows) THEN ParseIpcMethod(path, 0, later, windows)
  ELSE Refused

(* WindowsNamedPipeConnection::connect()                                   *)
WnpConnect(sockets, windows) ==
  IF windows THEN ParseIpcMethod(<<".">>, 0, sockets, windows) ELSE Refused
=============================================================================
