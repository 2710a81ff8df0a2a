------------------------- MODULE PeerDiscoveryRecord -------------------------
(***************************************************************************)
(* The DNS-SD records by which a proxy announces a peer and by which other *)
(* proxies learn of it: background/src/peer-discovery-record.js, with the  *)
(* two uses that peer-discovery.js makes of it (what advertisePeer and     *)
(* cancelPeerAdvert send, what handleResponse makes of a packet).          *)
(*                                                                         *)
(* A JavaScript object is a function from the keys that it has; null, and  *)
(* an object without keys, are Nothing.  A name is a sequence of symbols,  *)
(* cut from the left, of which a few matter: "[" and the constant end of   *)
(* an instance name to decode, "{peerId}" and String.replace's patterns    *)
(* "$$", "$&", "$`" and "$'" to encode.                                    *)
(* A packet is a function from the types of its answers to the first       *)
(* answer of each type, which is all that handleResponse looks at.         *)
(***************************************************************************)
EXTENDS Naturals, Sequences, FiniteSetsExt

Nothing == [key \in {} |-> key]

Has(object, key) == key \in DOMAIN object

\* _.merge of two objects without objects in them: the later one wins.
Merge(object, later) ==
  [key \in DOMAIN object \cup DOMAIN later |->
     IF Has(later, key) THEN later[key] ELSE object[key]]

Suffix == "]._ws._tcp.local"

Placeholder == "{peerId}"

\* What follows {channelName} in the template of instance names.
TemplateEnd == "[{peerId}]._ws._tcp.local"

\* What the first replace puts in for a symbol of the channel's name.
Inserted(symbol) ==
  CASE symbol = "$$" -> "$"
    [] symbol = "$&" -> "{channelName}"
    [] symbol = "$`" -> ""
    [] symbol = "$'" -> TemplateEnd
    [] OTHER -> symbol

Expanded(name) == [i \in DOMAIN name |-> Inserted(name[i])]

\* The template with a channel and a peer put in.
Bracketed(name, peerId) == name \o <<"[">> \o peerId \o <<Suffix>>

\* The second replace finds the first placeholder, which may be in the name.
Holes(name) == {i \in DOMAIN name : name[i] \in {Placeholder, TemplateEnd}}

Filled(name, i, peerId) ==
  SubSeq(name, 1, i - 1)
    \o (IF name[i] = Placeholder THEN peerId ELSE Bracketed(<<>>, peerId))
    \o SubSeq(name, i + 1, Len(name))

InstanceName(channelName, peerId) ==
  LET name == Expanded(channelName)
  IN  IF Holes(name) = {} THEN Bracketed(name, peerId)
      ELSE Bracketed(Filled(name, Min(Holes(name)), peerId), <<Placeholder>>)

\* The names in which both replaces find nothing but their placeholder.
Survives(name) ==
  \A i \in DOMAIN name :
    name[i] \notin {"$$", "$&", "$`", "$'", Placeholder, TemplateEnd}

Host(name) == <<name, ".local">>
-----------------------------------------------------------------------------
(* Encoding.  Only whether a time to live is zero is ever looked at.       *)

\* The encoders throw if a parameter is missing.
Encodable(params) ==
  \A key \in {"channelName", "peerId", "port", "hostname", "url", "ip"} :
    Has(params, key)

PtrEncode(params, ttl) ==
  [name |-> <<"_ws._tcp.local">>, ttl |-> ttl,
   data |-> InstanceName(params.channelName, params.peerId)]

SrvEncode(params, ttl) ==
  [name |-> InstanceName(params.channelName, params.peerId), ttl |-> ttl,
   data |-> [port |-> params.port, target |-> Host(params.hostname)]]

TxtEncode(params, ttl) ==
  [name |-> InstanceName(params.channelName, params.peerId), ttl |-> ttl,
   data |-> [path |-> params.url]]

AEncode(params) ==
  [name |-> Host(params.hostname), ttl |-> 120, data |-> params.ip]

\* The answers of PeerDiscovery.advertisePeer.
Advert(params) ==
  [PTR |-> PtrEncode(params, 4500), SRV |-> SrvEncode(params, 4500),
   TXT |-> TxtEncode(params, 4500), A |-> AEncode(params)]

\* Deviation: the time to live of the SRV record is left as it is.
GoodbyeAlive(params) ==
  [PTR |-> PtrEncode(params, 0), SRV |-> SrvEncode(params, 4500),
   TXT |-> TxtEncode(params, 0)]

\* Those of PeerDiscovery.cancelPeerAdvert: no A record.
Goodbye(params) ==
  [PTR |-> PtrEncode(params, 0), SRV |-> SrvEncode(params, 0),
   TXT |-> TxtEncode(params, 0)]
-----------------------------------------------------------------------------
(* Decoding.                                                               *)

\* Where a match of /(.*)\[(.*)\]\._ws\._tcp\.local/ may have its "[".
Brackets(data) ==
  {i \in DOMAIN data :
     data[i] = "[" /\ \E j \in DOMAIN data : j > i /\ data[j] = Suffix}

\* The groups of the pattern around the bracket at i and the end at j.
Groups(data, i, j) ==
  [channelName |-> SubSeq(data, 1, i - 1), peerId |-> SubSeq(data, i + 1, j - 1)]

\* Both groups are greedy: they meet at the last bracket.
PtrDecode(record) ==
  LET data == record.data
      last == Max(Brackets(data))
      end == Max({j \in DOMAIN data : data[j] = Suffix})
  IN  IF Brackets(data) = {} THEN Nothing ELSE Groups(data, last, end)

\* A port of 0 counts as none.
SrvDecode(record) ==
  IF Has(record.data, "port") /\ record.data.port # 0
  THEN [port |-> record.data.port, isGoodbye |-> record.ttl = 0]
  ELSE Nothing

ADecode(record) == [ip |-> record.data]
-----------------------------------------------------------------------------
(* PeerDiscovery.handleResponse.                                           *)

Whole(packet) == {"PTR", "SRV", "TXT"} \subseteq DOMAIN packet

\* parse, of a packet that is whole.  The TXT record is decoded as if it were an
\* SRV record, so there is never a url.
Parse(packet) ==
  Merge(Merge(Merge(PtrDecode(packet.PTR), SrvDecode(packet.SRV)),
              SrvDecode(packet.TXT)),
        IF Has(packet, "A") THEN ADecode(packet.A) ELSE Nothing)

IsGoodbye(data) == Has(data, "isGoodbye") /\ data.isGoodbye

IsAdvert(data) ==
  {"port", "channelName", "peerId"}
    \cup (IF IsGoodbye(data) THEN {} ELSE {"ip"}) \subseteq DOMAIN data

Event(type, data) == [event |-> type, data |-> data]

\* What is emitted for parsed data; none is a warning on the console.
Emission(data) ==
  CASE IsGoodbye(data) -> Event("goodbye", data)
    [] ~IsGoodbye(data) /\ IsAdvert(data) -> Event("discover", data)
    [] OTHER -> Event("none", data)

\* Deviation: own packets are not told by the address of their A record.
HeardWithOwn(packet, ip) ==
  CASE packet = Nothing -> Event("none", Nothing)
    [] packet # Nothing /\ ~Whole(packet) -> Event("throws", Nothing)
    [] OTHER -> Emission(Parse(packet))

\* What handleResponse does with a packet at the proxy with address ip.  Of a
\* packet that is not whole parse makes null, and reading its ip throws.
Heard(packet, ip) ==
  LET data == Parse(packet)
  IN  CASE packet = Nothing -> Event("none", Nothing)
        [] packet # Nothing /\ ~Whole(packet) -> Event("throws", Nothing)
        [] OTHER -> IF Has(data, "ip") /\ data.ip = ip
                    THEN Event("none", data)
                    ELSE Emission(data)
=============================================================================
