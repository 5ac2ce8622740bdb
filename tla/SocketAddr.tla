------------------------------ MODULE SocketAddr ------------------------------
(***************************************************************************)
(* Addresses (src/net/tcp/socketAddr.cpp) and their conversions from and   *)
(* to text (src/net/tcp/socketOperation.cpp).                              *)
(*                                                                         *)
(* A sockaddr_in is the bytes of its address and its port in the order in  *)
(* which the network sees them; what the program computes with are numbers *)
(* of 16 and 32 bits made of those bytes, in the byte order of the build.  *)
(* A text is the numbers in it: each is the set of the value std::stoi     *)
(* reads there, empty when stoi throws.                                    *)
(*                                                                         *)
(* Operators named X_Y are bugs X might have had.                          *)
(***************************************************************************)
EXTENDS Integers

CONSTANT LittleEndian   \* the byte order of the build

ASSUME SocketAddrAssumption == LittleEndian \in BOOLEAN

Octets == 0..255
SockAddrs == [ip : [1..4 -> Octets], port : [1..2 -> Octets]]

-----------------------------------------------------------------------------
(* From numbers to an address.                                             *)

htons(p) == [i \in 1..2 |-> IF i = 1 THEN p \div 256 ELSE p % 256]

(* An assignment to uint16_t keeps the low 16 bits of what stoi returned.   *)
Uint16(n) == n % 65536
Read(number) == CHOOSE n \in number : TRUE

IsIpv4(text) ==
  /\ DOMAIN text = 1..4
  /\ \A i \in 1..4 : text[i] # {} /\ Uint16(Read(text[i])) \in Octets

(* The first number becomes the highest byte of s_addr, a number: in memory *)
(* it comes last on a little-endian build.                                  *)
InMemory(i) == IF LittleEndian THEN 5 - i ELSE i

(* toAddrIpv4 of a text for which IsIpv4.                                   *)
ToAddrIpv4(text, p) ==
  [ip |-> [i \in 1..4 |-> Uint16(Read(text[InMemory(i)]))], port |-> htons(p)]

-----------------------------------------------------------------------------
(* From an address to its text: the bytes of the address in memory order;   *)
(* of the port, the number with its two bytes exchanged.                    *)

sin_port(a) ==
  IF LittleEndian THEN a.port[1] + 256 * a.port[2] ELSE 256 * a.port[1] + a.port[2]

PortShown_HighByteOnly(a) == sin_port(a) \div 256
PortShown(a) == ((sin_port(a) * 256) % 65536) + (sin_port(a) \div 256)

toString(a) == [ip |-> a.ip, port |-> PortShown(a)]
=============================================================================
