------------------------- MODULE ProxyProcessProofs -------------------------
(***************************************************************************)
(* Proofs about one proxy as a process: what its records say to those who  *)
(* hear them, for any names of channels, and what holds of its lists and   *)
(* of what it announces in every state that it reaches.                    *)
(***************************************************************************)
EXTENDS ProxyProcess, SequenceTheorems, WellFoundedInduction,
        TLAPS

(***************************************************************************)
(* The codec.                                                              *)
(***************************************************************************)

\* The last three symbols of a template filled in, and what comes before them.
LEMMA BracketedShape ==
  ASSUME NEW S, NEW name \in Seq(S), NEW id
  PROVE  LET data == Bracketed(name, <<id>>)
             n == Len(name)
         IN  /\ n \in Nat
             /\ DOMAIN data = 1 .. (n + 3)
             /\ \A i \in 1 .. n : data[i] = name[i]
             /\ data[n + 1] = "["
             /\ data[n + 2] = id
             /\ data[n + 3] = Suffix
             /\ data \in Seq(S \cup {"[", id, Suffix})
             /\ Len(data) = n + 3
<1> DEFINE T == S \cup {"[", id, Suffix}
<1> DEFINE n == Len(name)
<1> DEFINE a == name \o <<"[">>
<1> DEFINE b == a \o <<id>>
<1> DEFINE d == b \o <<Suffix>>
<1>1. n \in Nat /\ name \in Seq(T) /\ DOMAIN name = 1 .. n
  OBVIOUS
<1>2. a \in Seq(T) /\ Len(a) = n + 1 /\ a[n + 1] = "["
      /\ \A i \in 1 .. n : a[i] = name[i]
  BY <1>1
<1> HIDE DEF a
<1>3. b \in Seq(T) /\ Len(b) = n + 2 /\ b[n + 2] = id
      /\ \A i \in 1 .. (n + 1) : b[i] = a[i]
  BY <1>1, <1>2
<1> HIDE DEF b
<1>4. d \in Seq(T) /\ Len(d) = n + 3 /\ d[n + 3] = Suffix
      /\ \A i \in 1 .. (n + 2) : d[i] = b[i]
  BY <1>1, <1>3
<1>5. d = Bracketed(name, <<id>>)
  BY DEF Bracketed, a, b
<1> HIDE DEF d
<1>6. /\ \A i \in 1 .. n : d[i] = name[i]
      /\ d[n + 1] = "["
      /\ d[n + 2] = id
  BY <1>1, <1>2, <1>3, <1>4
<1>7. DOMAIN d = 1 .. (n + 3)
  BY <1>1, <1>4
<1> QED  BY <1>1, <1>4, <1>5, <1>6, <1>7

\* A set of numbers has one greatest element.
LEMMA MaxIs ==
  ASSUME NEW S \in SUBSET Nat, NEW m \in S, \A x \in S : x <= m
  PROVE  Max(S) = m
<1>1. m \in S /\ \A y \in S : m >= y
  OBVIOUS
<1>2. Max(S) \in S /\ \A y \in S : Max(S) >= y
  BY <1>1 DEF Max
<1>3. Max(S) \in Nat /\ Max(S) >= m /\ m >= Max(S)
  BY <1>1, <1>2
<1> QED  BY <1>3

\* A set of positions has a first.
LEMMA FirstHole ==
  ASSUME NEW S, NEW name \in Seq(S), Holes(name) # {}
  PROVE  Min(Holes(name)) \in DOMAIN name
<1>1. Holes(name) \subseteq Nat /\ Holes(name) \subseteq DOMAIN name
  BY DEF Holes
<1>2. PICK first \in Holes(name) : \A i \in Holes(name) : first <= i
  <2> DEFINE less == OpToRel(<, Nat)
  <2>1. IsWellFoundedOn(less, Nat)
    BY NatLessThanWellFounded
  <2>2. \A m, n \in Nat : m < n => <<m, n>> \in less
    BY DEF OpToRel
  <2> HIDE DEF less
  <2>3. PICK first \in Holes(name) : \A i \in Holes(name) : ~(<<i, first>> \in less)
    BY <1>1, <2>1, WFMin
  <2>4. ASSUME NEW i \in Holes(name) PROVE first <= i
    <3>1. i \in Nat /\ first \in Nat
      BY <1>1
    <3>2. ~(i < first)
      BY <2>2, <2>3, <3>1
    <3> QED  BY <3>1, <3>2
  <2> QED  BY <2>4
<1>3. Min(Holes(name)) \in Holes(name)
  BY <1>2 DEF Min
<1> QED  BY <1>1, <1>3

\* What Groups cuts out of it.
LEMMA GroupsAre ==
  ASSUME NEW data, NEW n \in Nat
  PROVE  Groups(data, n + 1, n + 3)
           = [channelName |-> SubSeq(data, 1, n),
              peerId |-> SubSeq(data, n + 2, n + 2)]
<1>1. n + 1 - 1 = n /\ n + 1 + 1 = n + 2 /\ n + 3 - 1 = n + 2
  OBVIOUS
<1> QED  BY <1>1 DEF Groups

\* Decoding gives back the two parts that were put in, however many signs of its
\* own the first has: the groups of the pattern are greedy, and the second, a
\* uuid or the placeholder, has none of the signs.
LEMMA DecodeInverts ==
  ASSUME NEW S, NEW name \in Seq(S), NEW id, id # "[", id # Suffix,
         NEW record, record.data = Bracketed(name, <<id>>)
  PROVE  PtrDecode(record) = [channelName |-> name, peerId |-> <<id>>]
<1> DEFINE data == Bracketed(name, <<id>>)
<1> DEFINE n == Len(name)
<1> DEFINE ends == {j \in DOMAIN data : data[j] = Suffix}
<1>1. /\ n \in Nat
      /\ DOMAIN data = 1 .. (n + 3)
      /\ \A i \in 1 .. n : data[i] = name[i]
      /\ data[n + 1] = "["
      /\ data[n + 2] = id
      /\ data[n + 3] = Suffix
      /\ data \in Seq(S \cup {"[", id, Suffix})
      /\ Len(data) = n + 3
  BY BracketedShape
<1> HIDE DEF data, n
<1>2. Brackets(data) \subseteq Nat /\ ends \subseteq Nat
  BY <1>1 DEF Brackets
<1>3. n + 1 \in Brackets(data)
  BY <1>1 DEF Brackets
<1>4. \A i \in Brackets(data) : i <= n + 1
  <2> SUFFICES ASSUME NEW i \in Brackets(data), ~(i <= n + 1)
               PROVE  FALSE
    OBVIOUS
  <2>1. i \in 1 .. (n + 3) /\ data[i] = "["
    BY <1>1 DEF Brackets
  <2>2. i = n + 2 \/ i = n + 3
    BY <1>1, <2>1
  <2>3. "[" # Suffix
    BY DEF Suffix
  <2> QED  BY <1>1, <2>1, <2>2, <2>3
<1>5. Max(Brackets(data)) = n + 1
  BY <1>2, <1>3, <1>4, MaxIs
<1>6. Max(ends) = n + 3
  <2>1. n + 3 \in ends /\ \A x \in ends : x <= n + 3
    BY <1>1
  <2> QED  BY <1>2, <2>1, MaxIs
<1>7. SubSeq(data, 1, n) = name
  <2> DEFINE front == SubSeq(data, 1, n)
  <2>1. \A i \in 1 .. n : data[i] \in S
    BY <1>1 DEF n
  <2>2. /\ front \in Seq(S) /\ Len(front) = n
        /\ \A i \in 1 .. n : front[i] = data[i]
    BY <1>1, <2>1, SubSeqProperties
  <2> HIDE DEF front
  <2>3. Len(front) = Len(name) /\ \A i \in 1 .. Len(front) : front[i] = name[i]
    BY <1>1, <2>2 DEF n
  <2>4. front = name
    BY <2>2, <2>3, SeqEqual
  <2> QED  BY <2>4 DEF front
<1>8. SubSeq(data, n + 2, n + 2) = <<id>>
  <2> DEFINE mid == SubSeq(data, n + 2, n + 2)
  <2>1. \A i \in (n + 2) .. (n + 2) : data[i] \in {id}
    BY <1>1
  <2>2. mid \in Seq({id}) /\ Len(mid) = 1 /\ mid[1] = data[n + 2]
    BY <1>1, <2>1, SubSeqProperties
  <2> HIDE DEF mid
  <2>3. <<id>> \in Seq({id}) /\ Len(mid) = Len(<<id>>)
        /\ \A i \in 1 .. Len(mid) : mid[i] = <<id>>[i]
    BY <1>1, <2>2
  <2>4. mid = <<id>>
    BY <2>2, <2>3, SeqEqual
  <2> QED  BY <2>4 DEF mid
<1>9. PtrDecode(record) = Groups(data, n + 1, n + 3)
  BY <1>3, <1>5, <1>6 DEF PtrDecode, data
<1>10. Groups(data, n + 1, n + 3)
         = [channelName |-> SubSeq(data, 1, n),
            peerId |-> SubSeq(data, n + 2, n + 2)]
  BY <1>1, GroupsAre
<1> QED  BY <1>7, <1>8, <1>9, <1>10

\* What the two replaces make of the name of a channel.
LEMMA ExpandedIs ==
  ASSUME NEW S, NEW name \in Seq(S)
  PROVE  /\ Expanded(name) \in Seq({Inserted(symbol) : symbol \in S})
         /\ DOMAIN Expanded(name) = DOMAIN name
         /\ \A i \in DOMAIN name : Expanded(name)[i] = Inserted(name[i])
<1> DEFINE T == {Inserted(symbol) : symbol \in S}
<1>1. \A i \in 1 .. Len(name) : Inserted(name[i]) \in T
  OBVIOUS
<1> HIDE DEF T
<1>2. DOMAIN name = 1 .. Len(name) /\ Len(name) \in Nat
  OBVIOUS
<1>3. Expanded(name) \in Seq(T)
  BY <1>1, <1>2 DEF Expanded
<1> QED  BY <1>3 DEF Expanded, T

LEMMA SurvivesMeans ==
  ASSUME NEW S, NEW name \in Seq(S)
  PROVE  Survives(name) <=>
           Expanded(name) = name /\ Holes(Expanded(name)) = {}
<1> USE DEF Placeholder, TemplateEnd
<1>1. ASSUME Survives(name)
      PROVE  Expanded(name) = name /\ Holes(Expanded(name)) = {}
  <2>1. \A i \in DOMAIN name : Inserted(name[i]) = name[i]
    BY <1>1 DEF Survives, Inserted
  <2>2. name = [i \in DOMAIN name |-> name[i]]
    OBVIOUS
  <2>3. Expanded(name) = name
    BY <2>1, <2>2 DEF Expanded
  <2>4. Holes(name) = {}
    BY <1>1 DEF Holes, Survives
  <2> QED  BY <2>3, <2>4
<1>2. ASSUME ~Survives(name), Expanded(name) = name
      PROVE  Holes(Expanded(name)) # {}
  <2>1. PICK i \in DOMAIN name :
          name[i] \in {"$$", "$&", "$`", "$'", Placeholder, TemplateEnd}
    BY <1>2 DEF Survives
  <2>2. name[i] = Inserted(name[i])
    BY <1>2, ExpandedIs
  <2>3. name[i] \in {Placeholder, TemplateEnd}
    BY <2>1, <2>2 DEF Inserted
  <2> QED  BY <1>2, <2>3 DEF Holes
<1> QED  BY <1>1, <1>2

LEMMA FilledIsName ==
  ASSUME NEW S, NEW name \in Seq(S), NEW i \in DOMAIN name, NEW id
  PROVE  Filled(name, i, <<id>>) \in Seq(S \cup {"[", id, Suffix})
<1> DEFINE T == S \cup {"[", id, Suffix}
<1>1. /\ name \in Seq(T) /\ Len(name) \in Nat
      /\ i \in 1 .. Len(name) /\ \A j \in 1 .. Len(name) : name[j] \in T
  OBVIOUS
<1>2. <<id>> \in Seq(T) /\ Bracketed(<<>>, <<id>>) \in Seq(T)
  BY DEF Bracketed
<1> HIDE DEF T
<1>3. SubSeq(name, 1, i - 1) \in Seq(T)
  <2>1. \A j \in 1 .. (i - 1) : name[j] \in T
    BY <1>1
  <2> QED  BY <1>1, <2>1, SubSeqProperties
<1>4. SubSeq(name, i + 1, Len(name)) \in Seq(T)
  <2>1. \A j \in (i + 1) .. Len(name) : name[j] \in T
    BY <1>1
  <2> QED  BY <1>1, <2>1, SubSeqProperties
<1> DEFINE middle == IF name[i] = Placeholder THEN <<id>>
                     ELSE Bracketed(<<>>, <<id>>)
<1>5. middle \in Seq(T)
  BY <1>2
<1> DEFINE front == SubSeq(name, 1, i - 1)
           back == SubSeq(name, i + 1, Len(name))
<1>6. Filled(name, i, <<id>>) = front \o middle \o back
  BY DEF Filled
<1> HIDE DEF front, middle, back
<1>7. front \o middle \in Seq(T)
  BY <1>3, <1>5 DEF front
<1>8. front \o middle \o back \in Seq(T)
  BY <1>4, <1>7 DEF back
<1> QED  BY <1>6, <1>8 DEF T

\* Whoever decodes the instance name of this channel and peer reads said and
\* who.
Reads(name, id, said, who) ==
  \A record :
    record.data = InstanceName(name, <<id>>) =>
      PtrDecode(record) = [channelName |-> said, peerId |-> <<who>>]

\* What is read is what was meant, for the names that survive and for no other.
Conveys(name, id, said, who) ==
  /\ Reads(name, id, said, who)
  /\ who \in {id, Placeholder}
  /\ Survives(name) <=> said = name /\ who = id

LEMMA NameDecodes ==
  ASSUME NEW S, NEW name \in Seq(S), NEW id, id \notin {"[", Suffix, Placeholder}
  PROVE  \E said, who : Conveys(name, id, said, who)
<1> DEFINE text == Expanded(name)
           T == {Inserted(symbol) : symbol \in S}
<1>1. text \in Seq(T)
  BY ExpandedIs
<1> HIDE DEF T
<1>2. Survives(name) <=> text = name /\ Holes(text) = {}
  BY SurvivesMeans
<1>3. CASE Holes(text) = {}
  <2>1. InstanceName(name, <<id>>) = Bracketed(text, <<id>>)
    BY <1>3 DEF InstanceName
  <2> HIDE DEF text
  <2>2. ASSUME NEW record, record.data = InstanceName(name, <<id>>)
        PROVE  PtrDecode(record) = [channelName |-> text, peerId |-> <<id>>]
    BY <1>1, <2>1, <2>2, DecodeInverts
  <2>3. Conveys(name, id, text, id)
    BY <1>2, <1>3, <2>2 DEF Conveys, Reads
  <2> QED  BY <2>3
<1>4. CASE Holes(text) # {}
  <2> DEFINE first == Min(Holes(text))
             said == Filled(text, first, <<id>>)
  <2>1. InstanceName(name, <<id>>) = Bracketed(said, <<Placeholder>>)
    BY <1>4 DEF InstanceName
  <2>2. first \in DOMAIN text
    BY <1>1, <1>4, FirstHole
  <2> HIDE DEF text, first
  <2>3. said \in Seq(T \cup {"[", id, Suffix})
    BY <1>1, <2>2, FilledIsName
  <2> HIDE DEF said
  <2>4. Placeholder # "[" /\ Placeholder # Suffix
    BY DEF Placeholder, Suffix
  <2>5. ASSUME NEW record, record.data = InstanceName(name, <<id>>)
        PROVE  PtrDecode(record)
                 = [channelName |-> said, peerId |-> <<Placeholder>>]
    BY <2>1, <2>3, <2>4, <2>5, DecodeInverts
  <2>6. Conveys(name, id, said, Placeholder)
    BY <1>2, <1>4, <2>5 DEF Conveys, Reads
  <2> QED  BY <2>6
<1> QED  BY <1>3, <1>4

\* What an encoded SRV record decodes to, and an encoded TXT record taken for
\* an SRV record.
LEMMA SrvDecodes ==
  ASSUME NEW params, params.port \in Nat \ {0}, NEW ttl \in Nat,
         NEW bye \in BOOLEAN, bye <=> ttl = 0
  PROVE  /\ SrvDecode(SrvEncode(params, ttl))
              = [port |-> params.port, isGoodbye |-> bye]
         /\ SrvDecode(TxtEncode(params, ttl)) = Nothing
<1>1. SrvDecode(SrvEncode(params, ttl))
        = [port |-> params.port, isGoodbye |-> bye]
  BY DEF SrvDecode, SrvEncode, Has
<1>2. "port" # "path"
  OBVIOUS
<1>3. SrvDecode(TxtEncode(params, ttl)) = Nothing
  BY <1>2 DEF SrvDecode, TxtEncode, Has
<1> QED  BY <1>1, <1>3

\* Merging what the records of a goodbye say.
LEMMA MergedGoodbye ==
  ASSUME NEW name, NEW peer, NEW port, NEW bye
  PROVE  Merge(Merge(Merge([channelName |-> name, peerId |-> peer],
                           [port |-> port, isGoodbye |-> bye]),
                     Nothing),
               Nothing)
           = [channelName |-> name, peerId |-> peer, port |-> port,
              isGoodbye |-> bye]
<1> DEFINE all == [channelName |-> name, peerId |-> peer, port |-> port,
                   isGoodbye |-> bye]
<1>1. Merge([channelName |-> name, peerId |-> peer],
            [port |-> port, isGoodbye |-> bye]) = all
  BY DEF Merge, Has
<1>2. Merge(all, Nothing) = all
  BY DEF Merge, Has, Nothing
<1> QED  BY <1>1, <1>2

\* Those of an advert say the address besides.
LEMMA MergedAdvert ==
  ASSUME NEW name, NEW peer, NEW port, NEW ip, NEW bye,
         NEW ptr, ptr = [channelName |-> name, peerId |-> peer],
         NEW srv, srv = [port |-> port, isGoodbye |-> bye],
         NEW a, a = [ip |-> ip]
  PROVE  Merge(Merge(Merge(ptr, srv), Nothing), a)
           = [channelName |-> name, peerId |-> peer, ip |-> ip, port |-> port,
              isGoodbye |-> bye]
<1> DEFINE all == [channelName |-> name, peerId |-> peer, port |-> port,
                   isGoodbye |-> bye]
<1>1. Merge(ptr, srv) = all
  BY DEF Merge, Has
<1>2. Merge(all, Nothing) = all
  BY DEF Merge, Has, Nothing
<1>3. Merge(all, a)
        = [channelName |-> name, peerId |-> peer, ip |-> ip, port |-> port,
           isGoodbye |-> bye]
  BY DEF Merge, Has
<1> QED  BY <1>1, <1>2, <1>3

\* The params of a listed peer, as peer discovery is given them.
Told(params, name, id, ip, port) ==
  /\ params.channelName = name
  /\ params.peerId = <<id>>
  /\ params.ip = ip
  /\ params.port = port

\* A packet that has at least the three answers about one peer, as an advert or
\* a goodbye gives them.
Answers(packet, params, ttl) ==
  /\ Whole(packet)
  /\ packet.PTR = PtrEncode(params, ttl)
  /\ packet.SRV = SrvEncode(params, ttl)
  /\ packet.TXT = TxtEncode(params, ttl)
  /\ Has(packet, "A") => packet.A = AEncode(params)

LEMMA AdvertAnswers ==
  ASSUME NEW params
  PROVE  Answers(Advert(params), params, 4500) /\ Has(Advert(params), "A")
BY DEF Answers, Whole, Has, Advert

LEMMA GoodbyeAnswers ==
  ASSUME NEW params
  PROVE  Answers(Goodbye(params), params, 0) /\ ~Has(Goodbye(params), "A")
BY DEF Answers, Whole, Has, Goodbye

\* So does what is left of it, if it is whole.
LEMMA RestAnswers ==
  ASSUME NEW sent, NEW params, NEW ttl, Answers(sent, params, ttl),
         NEW types \in SUBSET DOMAIN sent,
         NEW rest, rest = [type \in types |-> sent[type]], Whole(rest)
  PROVE  Answers(rest, params, ttl) /\ (Has(rest, "A") => Has(sent, "A"))
<1>1. DOMAIN rest = types /\ {"PTR", "SRV", "TXT"} \subseteq types
  BY DEF Whole
<1>2. \A type \in types : rest[type] = sent[type] /\ type \in DOMAIN sent
  OBVIOUS
<1>3. rest.PTR = sent.PTR /\ rest.SRV = sent.SRV /\ rest.TXT = sent.TXT
  BY <1>1, <1>2
<1>4. Has(rest, "A") => rest.A = sent.A /\ Has(sent, "A")
  BY <1>1, <1>2 DEF Has
<1> QED  BY <1>3, <1>4 DEF Answers

\* What parse makes of it.
LEMMA AnswersParsed ==
  ASSUME NEW name, NEW id, NEW said, NEW who, Reads(name, id, said, who), NEW ip,
         NEW port \in Nat \ {0}, NEW params, Told(params, name, id, ip, port),
         NEW ttl \in Nat, NEW bye \in BOOLEAN, bye <=> ttl = 0,
         NEW packet, Answers(packet, params, ttl)
  PROVE  /\ Has(packet, "A") =>
              Parse(packet) =
                [channelName |-> said, peerId |-> <<who>>, ip |-> ip,
                 port |-> port, isGoodbye |-> bye]
         /\ ~Has(packet, "A") =>
              Parse(packet) =
                [channelName |-> said, peerId |-> <<who>>, port |-> port,
                 isGoodbye |-> bye]
<1>1. packet.PTR.data = InstanceName(name, <<id>>)
  BY DEF Answers, PtrEncode, Told
<1>2. PtrDecode(packet.PTR) = [channelName |-> said, peerId |-> <<who>>]
  BY <1>1 DEF Reads
<1>3. /\ SrvDecode(packet.SRV) = [port |-> port, isGoodbye |-> bye]
      /\ SrvDecode(packet.TXT) = Nothing
  BY SrvDecodes DEF Answers, Told
<1>4. ASSUME Has(packet, "A")
      PROVE  Parse(packet) =
               [channelName |-> said, peerId |-> <<who>>, ip |-> ip,
                port |-> port, isGoodbye |-> bye]
  <2> DEFINE ptr == PtrDecode(packet.PTR)
  <2> DEFINE srv == SrvDecode(packet.SRV)
  <2> DEFINE a == ADecode(packet.A)
  <2>1. a = [ip |-> ip]
    BY <1>4 DEF Answers, ADecode, AEncode, Told
  <2>2. ptr = [channelName |-> said, peerId |-> <<who>>]
        /\ srv = [port |-> port, isGoodbye |-> bye]
    BY <1>2, <1>3
  <2>3. Parse(packet) = Merge(Merge(Merge(ptr, srv), Nothing), a)
    BY <1>3, <1>4 DEF Parse
  <2> HIDE DEF ptr, srv, a
  <2>4. Merge(Merge(Merge(ptr, srv), Nothing), a)
          = [channelName |-> said, peerId |-> <<who>>, ip |-> ip,
             port |-> port, isGoodbye |-> bye]
    BY <2>1, <2>2, MergedAdvert
  <2> QED  BY <2>3, <2>4
<1>5. ASSUME ~Has(packet, "A")
      PROVE  Parse(packet) =
               [channelName |-> said, peerId |-> <<who>>, port |-> port,
                isGoodbye |-> bye]
  <2>1. Parse(packet)
          = Merge(Merge(Merge(PtrDecode(packet.PTR), SrvDecode(packet.SRV)),
                        SrvDecode(packet.TXT)),
                  Nothing)
    BY <1>5 DEF Parse
  <2>2. Parse(packet)
          = Merge(Merge(Merge([channelName |-> said, peerId |-> <<who>>],
                              [port |-> port, isGoodbye |-> bye]),
                        Nothing),
                  Nothing)
    BY <1>2, <1>3, <2>1
  <2> QED  BY <2>2, MergedGoodbye
<1> QED  BY <1>4, <1>5

\* An advert with its address is taken for what it is by all but those who have
\* that address; without it by nobody.
LEMMA AdvertHeard ==
  ASSUME NEW name, NEW id, NEW said, NEW who, Reads(name, id, said, who), NEW ip,
         NEW port \in Nat \ {0}, NEW params, Told(params, name, id, ip, port),
         NEW ttl \in Nat \ {0}, NEW packet, Answers(packet, params, ttl), NEW at
  PROVE  /\ Has(packet, "A") /\ ip # at =>
              Heard(packet, at) =
                Event("discover",
                      [channelName |-> said, peerId |-> <<who>>, ip |-> ip,
                       port |-> port, isGoodbye |-> FALSE])
         /\ ~(Has(packet, "A") /\ ip # at) => Heard(packet, at).event = "none"
<1>1. PICK bye : bye = FALSE
  OBVIOUS
<1> DEFINE data == Parse(packet)
<1>2. bye \in BOOLEAN /\ ~bye
  BY <1>1, Zenon
<1>3. /\ Has(packet, "A") =>
           data = [channelName |-> said, peerId |-> <<who>>, ip |-> ip,
                   port |-> port, isGoodbye |-> bye]
      /\ ~Has(packet, "A") =>
           data = [channelName |-> said, peerId |-> <<who>>, port |-> port,
                   isGoodbye |-> bye]
  <2>1. bye <=> ttl = 0
    BY <1>2
  <2> QED  BY <1>2, <2>1, AnswersParsed
<1>4. Heard(packet, at) = IF Has(data, "ip") /\ data.ip = at
                          THEN Event("none", data)
                          ELSE Emission(data)
  BY DEF Heard, Answers, Whole, Nothing
<1> HIDE DEF data
<1>5. Has(data, "isGoodbye") /\ ~data.isGoodbye
  BY <1>2, <1>3 DEF Has
<1>6. /\ Has(data, "ip") <=> Has(packet, "A")
      /\ Has(packet, "A") => data.ip = ip
  BY <1>3 DEF Has
<1>7. ~IsGoodbye(data)
  BY <1>5 DEF IsGoodbye
<1>8. ASSUME Has(packet, "A"), ip # at
      PROVE  Heard(packet, at) = Event("discover", data)
  <2>1. IsAdvert(data)
    BY <1>3, <1>7, <1>8 DEF IsAdvert
  <2> QED  BY <1>4, <1>6, <1>7, <1>8, <2>1 DEF Emission
<1>9. ASSUME ~(Has(packet, "A") /\ ip # at)
      PROVE  Heard(packet, at).event = "none"
  <2>1. CASE Has(packet, "A")
    BY <1>4, <1>6, <1>9, <2>1 DEF Event
  <2>2. CASE ~Has(packet, "A")
    <3>1. ~IsAdvert(data)
      BY <1>6, <1>7, <2>2 DEF IsAdvert, Has
    <3> QED  BY <1>4, <1>6, <1>7, <2>2, <3>1 DEF Emission, Event
  <2> QED  BY <2>1, <2>2
<1>10. ASSUME Has(packet, "A"), ip # at
      PROVE  Heard(packet, at) =
               Event("discover",
                     [channelName |-> said, peerId |-> <<who>>, ip |-> ip,
                      port |-> port, isGoodbye |-> bye])
  BY <1>3, <1>8, <1>10
<1> QED  BY <1>1, <1>9, <1>10

\* A goodbye is taken for what it is by everyone, the announcer included.
LEMMA GoodbyeHeard ==
  ASSUME NEW name, NEW id, NEW said, NEW who, Reads(name, id, said, who), NEW ip,
         NEW port \in Nat \ {0}, NEW params, Told(params, name, id, ip, port),
         NEW packet, Answers(packet, params, 0), ~Has(packet, "A"), NEW at
  PROVE  Heard(packet, at) =
           Event("goodbye",
                 [channelName |-> said, peerId |-> <<who>>, port |-> port,
                  isGoodbye |-> TRUE])
<1>1. PICK bye : bye = TRUE
  OBVIOUS
<1> DEFINE data == Parse(packet)
<1>2. data = [channelName |-> said, peerId |-> <<who>>, port |-> port,
              isGoodbye |-> bye]
  <2>1. bye \in BOOLEAN /\ bye
    BY <1>1, Zenon
  <2>2. PICK ttl : ttl = 0
    OBVIOUS
  <2>3. /\ ttl \in Nat /\ (bye <=> ttl = 0) /\ Answers(packet, params, ttl)
        /\ bye \in BOOLEAN
    BY <2>1, <2>2
  <2>4. /\ Has(packet, "A") =>
             data = [channelName |-> said, peerId |-> <<who>>, ip |-> ip,
                     port |-> port, isGoodbye |-> bye]
        /\ ~Has(packet, "A") =>
             data = [channelName |-> said, peerId |-> <<who>>, port |-> port,
                     isGoodbye |-> bye]
    BY <2>3, AnswersParsed
  <2> QED  BY <2>4
<1>3. Heard(packet, at) = IF Has(data, "ip") /\ data.ip = at
                          THEN Event("none", data)
                          ELSE Emission(data)
  BY DEF Heard, Answers, Whole, Nothing
<1> HIDE DEF data
<1>4. ~Has(data, "ip") /\ IsGoodbye(data)
  BY <1>1, <1>2 DEF Has, IsGoodbye
<1>5. Heard(packet, at) = Event("goodbye", data)
  BY <1>3, <1>4 DEF Emission
<1>6. Heard(packet, at) =
        Event("goodbye",
              [channelName |-> said, peerId |-> <<who>>, port |-> port,
               isGoodbye |-> bye])
  BY <1>2, <1>5
<1> QED  BY <1>1, <1>6

(***************************************************************************)
(* The inductive invariant.  TypeOK and ListedAsAsked are inductive by     *)
(* themselves.  What the packets mean is not: it needs that the address    *)
(* and the port are fixed before anything is announced (Booted), and which *)
(* packets there are (Announces).                                          *)
(***************************************************************************)

\* A client is listed in the channel of its own URL.
ListedAsAsked ==
  \A peer \in localPeers : peer.id \in Clients /\ peer = Listing(peer.id)

AdvertOf(c) == Advert(Params(Listing(c)))
GoodbyeOf(c) == Goodbye(Params(Listing(c)))

\* Nothing is announced, and no socket has its handlers, before the address
\* and the port of the external server are known.
Booted ==
  /\ stage \in {"starting", "ready"} => publicIp # Elsewhere
  /\ externalServer = "binding" => stage = "starting"
  /\ stage # "ready" => handled = {} /\ announced = {}

\* What is announced: the advert of each client with handlers, the goodbye of
\* those that have closed, and nothing else.
Announces ==
  /\ \A c \in handled : client[c] # "new" /\ AdvertOf(c) \in announced
  /\ \A packet \in announced :
       \E c \in handled :
         \/ packet = AdvertOf(c)
         \/ packet = GoodbyeOf(c) /\ client[c] = "closed"

\* While the proxy runs, a client with handlers is listed until it closes, and
\* has said goodbye from then on.
Follows ==
  process = "running" =>
    \A c \in handled :
      /\ client[c] = "open" => Listing(c) \in localPeers
      /\ client[c] = "closed" => GoodbyeOf(c) \in announced

IInv == TypeOK /\ ListedAsAsked /\ Booted /\ Announces /\ Follows

\* A step that neither lists nor announces anything, and after which the sockets
\* are as they were or all closed with the process.
Quiet ==
  /\ UNCHANGED <<stage, publicIp, publicPort, localPeers, handled, announced>>
  /\ \/ process' = process /\ client' = client
     \/ process' = "gone" /\ client' = Closed(client)

LEMMA ClosedClients ==
  ASSUME NEW clients \in [Clients -> {"new", "open", "closed"}]
  PROVE  /\ Closed(clients) \in [Clients -> {"new", "open", "closed"}]
         /\ \A c \in Clients :
              /\ clients[c] # "new" => Closed(clients)[c] # "new"
              /\ clients[c] = "closed" => Closed(clients)[c] = "closed"
BY DEF Closed

LEMMA UncaughtIsQuiet ==
  ASSUME NEW throws \in BOOLEAN, Uncaught(throws, client) \/ Ends(throws, client)
  PROVE  \/ process' = process /\ client' = client
         \/ process' = "gone" /\ client' = Closed(client)
BY DEF Uncaught, Ends

LEMMA QuietKeeps ==
  ASSUME IInv, Quiet, externalServer' = "binding" => externalServer = "binding"
  PROVE  (ListedAsAsked /\ Booted /\ Announces /\ Follows)'
<1>1. ListedAsAsked'
  BY DEF IInv, Quiet, ListedAsAsked, Listing
<1>2. Booted'
  BY DEF IInv, Quiet, Booted
<1>3. \A c : AdvertOf(c)' = AdvertOf(c) /\ GoodbyeOf(c)' = GoodbyeOf(c)
  BY DEF Quiet, AdvertOf, GoodbyeOf, Params, Listing
<1>4. handled \subseteq Clients /\ handled' = handled /\ announced' = announced
      /\ localPeers' = localPeers
  BY DEF IInv, TypeOK, Quiet
<1>5. \A c \in handled :
        /\ client[c] # "new" => client'[c] # "new"
        /\ client[c] = "closed" => client'[c] = "closed"
  BY <1>4, ClosedClients DEF IInv, TypeOK, Quiet
<1>6. Announces'
  BY <1>3, <1>4, <1>5 DEF IInv, Announces
<1>7. Follows'
  <2>1. CASE process' = process /\ client' = client
    BY <1>3, <1>4, <2>1 DEF IInv, Follows, Listing
  <2>2. CASE process' = "gone"
    BY <2>2 DEF Follows
  <2> QED  BY <2>1, <2>2 DEF Quiet
<1> QED  BY <1>1, <1>2, <1>6, <1>7

\* What the steps of the start keep: before the last of them there is nothing
\* that could be announced.
LEMMA StartKeeps ==
  ASSUME IInv, Starting
  PROVE  (ListedAsAsked /\ Booted /\ Announces /\ Follows)'
<1>1. CASE InitApp
  <2>1. stage = "loaded" /\ handled = {} /\ announced = {} /\ UNCHANGED listVars
    BY <1>1 DEF InitApp, IInv, Booted
  <2>2. Booted'
    BY <1>1, <2>1 DEF InitApp, IInv, Booted, listVars, serverVars
  <2>3. ListedAsAsked' /\ Announces' /\ Follows'
    BY <2>1 DEF IInv, ListedAsAsked, Listing, Announces, Follows, listVars
  <2> QED  BY <2>2, <2>3
<1>2. ASSUME NEW interfaces \in SUBSET Interfaces, StartWithPublicIp(interfaces)
      PROVE  (ListedAsAsked /\ Booted /\ Announces /\ Follows)'
  <2>1. stage = "resolving" /\ handled = {} /\ announced = {} /\ UNCHANGED listVars
    BY <1>2 DEF StartWithPublicIp, IInv, Booted
  <2>2. publicIp' # Elsewhere
    BY <1>2, ProcessAssumption DEF StartWithPublicIp, External
  <2>3. Booted'
    BY <1>2, <2>1, <2>2 DEF StartWithPublicIp, Booted, listVars
  <2>4. ListedAsAsked' /\ Announces' /\ Follows'
    BY <2>1 DEF IInv, ListedAsAsked, Listing, Announces, Follows, listVars
  <2> QED  BY <2>3, <2>4
<1>3. ASSUME NEW interfaces \in SUBSET Interfaces, NoAddress(interfaces)
      PROVE  (ListedAsAsked /\ Booted /\ Announces /\ Follows)'
  <2>1. stage = "resolving" /\ handled = {} /\ announced = {} /\ UNCHANGED listVars
    BY <1>3 DEF NoAddress, IInv, Booted
  <2>2. Booted'
    BY <1>3, <2>1 DEF NoAddress, IInv, Booted, listVars, serverVars
  <2>3. ListedAsAsked' /\ Announces' /\ Follows'
    BY <2>1 DEF IInv, ListedAsAsked, Listing, Announces, Follows, listVars
  <2> QED  BY <2>2, <2>3
<1>4. CASE LocalListens
  <2>1. Quiet /\ externalServer' = externalServer
    BY <1>4 DEF LocalListens, Quiet, listVars
  <2> QED  BY <2>1, QuietKeeps
<1>5. CASE LocalFails
  <2>1. Quiet /\ externalServer' = externalServer
    BY <1>5, UncaughtIsQuiet DEF LocalFails, Quiet, listVars
  <2> QED  BY <2>1, QuietKeeps
<1>6. ASSUME NEW port \in Ports, ExternalListens(port)
      PROVE  (ListedAsAsked /\ Booted /\ Announces /\ Follows)'
  <2>1. stage = "starting" /\ handled = {} /\ announced = {} /\ UNCHANGED listVars
    BY <1>6 DEF ExternalListens, IInv, Booted
  <2>2. Booted'
    BY <1>6, <2>1 DEF ExternalListens, IInv, Booted, listVars
  <2>3. ListedAsAsked' /\ Announces' /\ Follows'
    BY <2>1 DEF IInv, ListedAsAsked, Listing, Announces, Follows, listVars
  <2> QED  BY <2>2, <2>3
<1>7. CASE ExternalFails
  <2>1. Quiet /\ externalServer' # "binding"
    BY <1>7, UncaughtIsQuiet DEF ExternalFails, Quiet, listVars
  <2> QED  BY <2>1, QuietKeeps
<1> QED  BY <1>1, <1>2, <1>3, <1>4, <1>5, <1>6, <1>7 DEF Starting

\* A client that connects is new, so it has no packet yet; if discovery runs it
\* gets its handlers, its entry and its advert in the same step.
LEMMA ConnectKeeps ==
  ASSUME IInv, NEW c \in Clients, ClientConnects(c)
  PROVE  (ListedAsAsked /\ Booted /\ Announces /\ Follows)'
<1>1. /\ process = "running" /\ client[c] = "new" /\ c \notin handled
      /\ UNCHANGED <<stage, publicIp, publicPort, externalServer>>
      /\ client \in [Clients -> {"new", "open", "closed"}]
      /\ handled \subseteq Clients
  BY DEF ClientConnects, serverVars, IInv, Announces, TypeOK
<1>2. \A d : AdvertOf(d)' = AdvertOf(d) /\ GoodbyeOf(d)' = GoodbyeOf(d)
  BY <1>1 DEF AdvertOf, GoodbyeOf, Params, Listing
<1>3. CASE RefuseClient(c)
  <2>1. /\ UNCHANGED <<process, localPeers, handled, announced>>
        /\ \A d \in handled : client'[d] = client[d]
    BY <1>1, <1>3 DEF RefuseClient, listVars
  <2>2. ListedAsAsked' /\ Booted'
    BY <1>1, <2>1 DEF IInv, ListedAsAsked, Listing, Booted
  <2>3. Announces' /\ Follows'
    BY <1>2, <2>1 DEF IInv, Announces, Follows, Listing
  <2> QED  BY <2>2, <2>3
<1>4. CASE AcceptClient(c)
  <2> DEFINE peer == [id |-> c, channel |-> channelName']
  <2>1. peer = Listing(c)
    BY <1>4 DEF AcceptClient, Listing
  <2>2. localPeers' = localPeers \cup {Listing(c)}
    BY <1>4, <2>1 DEF AcceptClient
  <2>3. ListedAsAsked'
    BY <2>2 DEF IInv, ListedAsAsked, Listing
  <2>4. CASE stage = "ready"
    <3>1. /\ announced' = announced \cup {AdvertOf(c)}
          /\ handled' = handled \cup {c}
      BY <1>4, <2>1, <2>4 DEF AcceptClient, AdvertOf
    <3>2. client' = [client EXCEPT ![c] = "open"] /\ process' = process
      BY <1>4, <2>4 DEF AcceptClient, Uncaught, Ends, Joined
    <3>3. client'[c] = "open" /\ \A d \in handled : client'[d] = client[d]
      BY <1>1, <3>2
    <3>4. Booted'
      BY <1>1, <2>4 DEF IInv, Booted
    <3>5. Announces'
      BY <1>2, <3>1, <3>3 DEF IInv, Announces
    <3>6. Follows'
      BY <1>1, <1>2, <2>2, <3>1, <3>2, <3>3 DEF IInv, Follows, Listing
    <3> QED  BY <2>3, <3>4, <3>5, <3>6
  <2>5. CASE stage # "ready"
    <3>1. handled = {} /\ announced = {} /\ handled' = {} /\ announced' = {}
      BY <1>4, <2>5 DEF AcceptClient, IInv, Booted
    <3> QED  BY <1>1, <2>3, <3>1 DEF IInv, Booted, Announces, Follows
  <2> QED  BY <2>4, <2>5
<1> QED  BY <1>3, <1>4 DEF ClientConnects

\* A client that closes is unlisted and says goodbye in the same step.
LEMMA CloseKeeps ==
  ASSUME IInv, NEW c \in Clients, ClientCloses(c)
  PROVE  (ListedAsAsked /\ Booted /\ Announces /\ Follows)'
<1> DEFINE own == {peer \in localPeers : peer.id = c}
<1>1. /\ process = "running" /\ client[c] = "open"
      /\ client' = [client EXCEPT ![c] = "closed"]
      /\ UNCHANGED <<process, stage, publicIp, publicPort, externalServer, handled>>
      /\ client \in [Clients -> {"new", "open", "closed"}]
      /\ handled \subseteq Clients
  BY DEF ClientCloses, serverVars, IInv, TypeOK
<1>2. client'[c] = "closed" /\ \A d \in Clients \ {c} : client'[d] = client[d]
  BY <1>1
<1>3. \A d : AdvertOf(d)' = AdvertOf(d) /\ GoodbyeOf(d)' = GoodbyeOf(d)
  BY <1>1 DEF AdvertOf, GoodbyeOf, Params, Listing
<1>4. localPeers' \subseteq localPeers
  BY DEF ClientCloses
<1>5. ListedAsAsked'
  BY <1>4 DEF IInv, ListedAsAsked, Listing
<1>6. CASE c \notin handled
  <2>1. localPeers' = localPeers /\ announced' = announced
    BY <1>6 DEF ClientCloses
  <2>2. Booted'
    BY <1>1, <2>1 DEF IInv, Booted
  <2>3. Announces' /\ Follows'
    BY <1>1, <1>2, <1>3, <1>6, <2>1 DEF IInv, Announces, Follows, Listing
  <2> QED  BY <1>5, <2>2, <2>3
<1>7. CASE c \in handled
  <2>1. own = {Listing(c)}
    <3>1. Listing(c) \in localPeers /\ Listing(c).id = c
      BY <1>1, <1>7 DEF IInv, Follows, Listing
    <3>2. \A peer \in own : peer = Listing(c)
      BY DEF IInv, ListedAsAsked
    <3> QED  BY <3>1, <3>2
  <2>2. /\ localPeers' = localPeers \ {Listing(c)}
        /\ announced' = announced \cup {GoodbyeOf(c)}
    BY <1>7, <2>1 DEF ClientCloses, GoodbyeOf
  <2>3. Booted'
    BY <1>1, <1>7 DEF IInv, Booted
  <2>4. Announces'
    BY <1>1, <1>2, <1>3, <1>7, <2>2 DEF IInv, Announces
  <2>5. Follows'
    <3>1. \A d \in handled \ {c} : Listing(d)' = Listing(d) /\ Listing(d) # Listing(c)
      BY DEF Listing
    <3> QED  BY <1>1, <1>2, <1>3, <2>2, <3>1 DEF IInv, Follows
  <2> QED  BY <1>5, <2>3, <2>4, <2>5
<1> QED  BY <1>6, <1>7

\* TypeOK is kept by every step.
LEMMA TypeStep ==
  ASSUME TypeOK, [Next]_vars
  PROVE  TypeOK'
<1> USE DEF TypeOK
<1>1. ASSUME NEW clients \in [Clients -> {"new", "open", "closed"}]
      PROVE  Closed(clients) \in [Clients -> {"new", "open", "closed"}]
  BY ClosedClients
<1>2. ASSUME NEW gone, NEW clients \in [Clients -> {"new", "open", "closed"}],
             Ends(gone, clients) \/ Uncaught(gone, clients)
      PROVE  /\ process' \in {"running", "gone"}
             /\ client' \in [Clients -> {"new", "open", "closed"}]
  BY <1>1, <1>2 DEF Ends, Uncaught
<1>3. CASE Starting
  <2>1. CASE InitApp
    BY <2>1 DEF InitApp, serverVars, listVars
  <2>2. ASSUME NEW interfaces \in SUBSET Interfaces,
               StartWithPublicIp(interfaces) \/ NoAddress(interfaces)
        PROVE  TypeOK'
    BY <2>2 DEF StartWithPublicIp, NoAddress, serverVars, listVars
  <2>3. CASE LocalListens
    BY <2>3 DEF LocalListens, listVars
  <2>4. CASE LocalFails
    BY <1>2, <2>4 DEF LocalFails, listVars
  <2>5. ASSUME NEW port \in Ports, ExternalListens(port)
        PROVE  TypeOK'
    BY <2>5 DEF ExternalListens, listVars
  <2>6. CASE ExternalFails
    BY <1>2, <2>6 DEF ExternalFails, listVars
  <2> QED  BY <1>3, <2>1, <2>2, <2>3, <2>4, <2>5, <2>6 DEF Starting
<1>4. ASSUME NEW c \in Clients, ClientConnects(c)
      PROVE  TypeOK'
  <2>1. CASE RefuseClient(c)
    BY <1>4, <2>1 DEF ClientConnects, RefuseClient, serverVars, listVars
  <2>2. CASE AcceptClient(c)
    <3>1. Joined(c) \in [Clients -> {"new", "open", "closed"}]
      BY DEF Joined
    <3>2. handled' \subseteq Clients
      BY <2>2 DEF AcceptClient
    <3>3. Uncaught(stage # "ready", Joined(c))
      BY <2>2 DEF AcceptClient
    <3>4. /\ process' \in {"running", "gone"}
          /\ client' \in [Clients -> {"new", "open", "closed"}]
      BY <1>2, <3>1, <3>3
    <3> QED  BY <1>4, <3>2, <3>4 DEF ClientConnects, serverVars
  <2> QED  BY <1>4, <2>1, <2>2 DEF ClientConnects
<1>5. ASSUME NEW c \in Clients, ClientCloses(c)
      PROVE  TypeOK'
  BY <1>5 DEF ClientCloses, serverVars
<1>6. ASSUME NEW c \in Clients, NEW payload \in {"data", "null"},
             ClientBroadcasts(c, payload)
      PROVE  TypeOK'
  BY <1>2, <1>6 DEF ClientBroadcasts, serverVars, listVars
<1>7. CASE ProxyConnects
  BY <1>7 DEF ProxyConnects, serverVars, listVars
<1>8. ASSUME NEW packet \in Packets \cup announced, ReceivePacket(packet)
      PROVE  TypeOK'
  BY <1>2, <1>8 DEF ReceivePacket, serverVars, listVars
<1>9. CASE WindowCloses
  BY <1>2, <1>9 DEF WindowCloses, serverVars, listVars
<1>10. CASE Quit
  BY <1>2, <1>10 DEF Quit, serverVars, listVars
<1>11. CASE UNCHANGED vars
  BY <1>11 DEF vars, serverVars, listVars
<1> QED  BY <1>3, <1>4, <1>5, <1>6, <1>7, <1>8, <1>9, <1>10, <1>11 DEF Next

LEMMA InvariantInit ==
  Init => IInv
<1> SUFFICES ASSUME Init PROVE IInv
  OBVIOUS
<1>1. TypeOK
  BY DEF Init, TypeOK
<1>2. ListedAsAsked /\ Booted /\ Announces /\ Follows
  BY DEF Init, ListedAsAsked, Booted, Announces, Follows
<1> QED  BY <1>1, <1>2 DEF IInv

LEMMA InvariantStep ==
  IInv /\ [Next]_vars => IInv'
<1> SUFFICES ASSUME IInv, [Next]_vars PROVE IInv'
  OBVIOUS
<1>1. TypeOK'
  BY TypeStep DEF IInv
<1>2. CASE Starting
  BY <1>1, <1>2, StartKeeps DEF IInv
<1>3. ASSUME NEW c \in Clients, ClientConnects(c) \/ ClientCloses(c)
      PROVE  IInv'
  BY <1>1, <1>3, ConnectKeeps, CloseKeeps DEF IInv
<1>4. ASSUME NEW c \in Clients, NEW payload \in {"data", "null"},
             ClientBroadcasts(c, payload)
      PROVE  IInv'
  <2>1. Quiet /\ externalServer' = externalServer
    BY <1>4, UncaughtIsQuiet DEF ClientBroadcasts, Quiet, listVars, serverVars
  <2> QED  BY <1>1, <2>1, QuietKeeps DEF IInv
<1>5. CASE ProxyConnects
  <2>1. Quiet /\ externalServer' = externalServer
    BY <1>5 DEF ProxyConnects, Quiet, listVars, serverVars
  <2> QED  BY <1>1, <2>1, QuietKeeps DEF IInv
<1>6. ASSUME NEW packet \in Packets \cup announced, ReceivePacket(packet)
      PROVE  IInv'
  <2>1. Quiet /\ externalServer' = externalServer
    BY <1>6, UncaughtIsQuiet DEF ReceivePacket, Quiet, listVars, serverVars
  <2> QED  BY <1>1, <2>1, QuietKeeps DEF IInv
<1>7. CASE WindowCloses
  <2>1. Quiet /\ externalServer' = externalServer
    BY <1>7, UncaughtIsQuiet
      DEF WindowCloses, EndsWithWindow, Quiet, listVars, serverVars
  <2> QED  BY <1>1, <2>1, QuietKeeps DEF IInv
<1>8. CASE Quit
  <2>1. Quiet /\ externalServer' = externalServer
    BY <1>8, UncaughtIsQuiet DEF Quit, Quiet, listVars, serverVars
  <2> QED  BY <1>1, <2>1, QuietKeeps DEF IInv
<1>9. CASE UNCHANGED vars
  <2>1. Quiet /\ externalServer' = externalServer
    BY <1>9 DEF vars, Quiet, listVars, serverVars
  <2> QED  BY <1>1, <2>1, QuietKeeps DEF IInv
<1> QED  BY <1>2, <1>3, <1>4, <1>5, <1>6, <1>7, <1>8, <1>9 DEF Next

LEMMA Invariant == Spec => []IInv
BY InvariantInit, InvariantStep, PTL DEF Spec

(***************************************************************************)
(* The theorems.                                                           *)
(***************************************************************************)

\* Every variable keeps its type, and a port is known exactly when peer
\* discovery runs (named-websocket-proxy.js:47-66).
THEOREM TypeCorrect == Spec => []TypeOK
<1>1. IInv => TypeOK
  BY DEF IInv
<1> QED  BY <1>1, Invariant, PTL

\* What the own packets say to whoever has the address at.
OwnSays(c, at, said, who) ==
  /\ publicIp # at =>
       Heard(AdvertOf(c), at) =
         Event("discover",
               [channelName |-> said, peerId |-> <<who>>, ip |-> publicIp,
                port |-> publicPort, isGoodbye |-> FALSE])
  /\ publicIp = at => Heard(AdvertOf(c), at).event = "none"
  /\ Heard(GoodbyeOf(c), at) =
       Event("goodbye",
             [channelName |-> said, peerId |-> <<who>>, port |-> publicPort,
              isGoodbye |-> TRUE])

LEMMA OwnTold ==
  ASSUME IInv, NEW c \in handled
  PROVE  /\ c \in Clients /\ Path[c] \in Seq(Symbols)
         /\ c \notin {"[", Suffix, Placeholder}
         /\ publicPort \in Nat \ {0}
         /\ Told(Params(Listing(c)), Path[c], c, publicIp, publicPort)
<1>1. c \in Clients /\ stage = "ready"
  BY DEF IInv, TypeOK, Booted
<1>2. /\ Path[c] \in Seq(Symbols) /\ publicPort \in Nat \ {0}
      /\ c \notin {"[", Suffix, Placeholder}
  BY <1>1, ProcessAssumption DEF IInv, TypeOK
<1>3. Told(Params(Listing(c)), Path[c], c, publicIp, publicPort)
  BY DEF Told, Params, Listing
<1> QED  BY <1>1, <1>2, <1>3

LEMMA OwnHeard ==
  ASSUME IInv, NEW c \in handled, NEW at
  PROVE  \E said, who : Conveys(Path[c], c, said, who) /\ OwnSays(c, at, said, who)
<1>1. /\ c \in Clients /\ Path[c] \in Seq(Symbols)
      /\ c \notin {"[", Suffix, Placeholder}
      /\ publicPort \in Nat \ {0}
      /\ Told(Params(Listing(c)), Path[c], c, publicIp, publicPort)
  BY OwnTold
<1>2. PICK said, who : Conveys(Path[c], c, said, who)
  BY <1>1, NameDecodes
<1>3. Reads(Path[c], c, said, who)
  BY <1>2 DEF Conveys
<1>4. PICK ttl \in Nat \ {0} : Answers(AdvertOf(c), Params(Listing(c)), ttl)
  BY AdvertAnswers DEF AdvertOf
<1>5. Has(AdvertOf(c), "A")
  BY AdvertAnswers DEF AdvertOf
<1>6. Answers(GoodbyeOf(c), Params(Listing(c)), 0) /\ ~Has(GoodbyeOf(c), "A")
  BY GoodbyeAnswers DEF GoodbyeOf
<1>7. Heard(GoodbyeOf(c), at) =
        Event("goodbye",
              [channelName |-> said, peerId |-> <<who>>, port |-> publicPort,
               isGoodbye |-> TRUE])
  BY <1>1, <1>3, <1>6, GoodbyeHeard
<1>8. /\ publicIp # at =>
           Heard(AdvertOf(c), at) =
             Event("discover",
                   [channelName |-> said, peerId |-> <<who>>, ip |-> publicIp,
                    port |-> publicPort, isGoodbye |-> FALSE])
      /\ publicIp = at => Heard(AdvertOf(c), at).event = "none"
  BY <1>1, <1>3, <1>4, <1>5, AdvertHeard
<1>9. OwnSays(c, at, said, who)
  BY <1>7, <1>8 DEF OwnSays
<1> QED  BY <1>2, <1>9

\* What another machine hears of a client's advert and goodbye.
LEMMA ClientsAreHeard ==
  ASSUME IInv, NEW c \in handled
  PROVE  \E said, who :
           /\ Conveys(Path[c], c, said, who)
           /\ HeardAfar(AdvertOf(c))
                = Event("discover",
                        [channelName |-> said, peerId |-> <<who>>, ip |-> publicIp,
                         port |-> publicPort, isGoodbye |-> FALSE])
           /\ HeardAfar(GoodbyeOf(c))
                = Event("goodbye",
                        [channelName |-> said, peerId |-> <<who>>,
                         port |-> publicPort, isGoodbye |-> TRUE])
<1>1. stage = "ready" /\ publicIp # Elsewhere
  BY DEF IInv, Booted
<1>2. PICK said, who :
        Conveys(Path[c], c, said, who) /\ OwnSays(c, Elsewhere, said, who)
  BY OwnHeard
<1> QED  BY <1>1, <1>2 DEF OwnSays, HeardAfar

\* Only the packets of a client are read as its own, and only if they convey
\* its name.
LEMMA ConveysOwn ==
  ASSUME IInv, NEW c \in handled, NEW d \in handled,
         NEW said, NEW who, Conveys(Path[d], d, said, who),
         said = Path[c], <<who>> = <<c>>
  PROVE  d = c /\ Survives(Path[c])
<1>1. <<who>>[1] = who /\ <<c>>[1] = c
  OBVIOUS
<1>2. who = c /\ said = Path[c]
  BY <1>1
<1>3. c # Placeholder
  BY OwnTold
<1>4. d = c
  BY <1>2, <1>3 DEF Conveys
<1> QED  BY <1>2, <1>4 DEF Conveys

\* Every client whose socket has handlers is announced, and whoever hears it
\* learns its channel, its uuid and where this proxy accepts connections, for
\* exactly the names that String.replace leaves alone.
THEOREM AdvertsAlwaysDiscoverable == Spec => []AdvertsDiscoverable
<1>1. IInv => AdvertsDiscoverable
  <2> SUFFICES ASSUME IInv, NEW c \in handled
               PROVE  /\ publicPort # 0
                      /\ Survives(Path[c]) <=>
                           \E packet \in announced :
                             HeardAfar(packet) =
                               Event("discover",
                                     [channelName |-> Path[c], peerId |-> <<c>>,
                                      ip |-> publicIp, port |-> publicPort,
                                      isGoodbye |-> FALSE])
    BY DEF AdvertsDiscoverable
  <2>1. publicPort # 0 /\ AdvertOf(c) \in announced
    BY OwnTold DEF IInv, Announces
  <2> DEFINE exact == Event("discover",
                            [channelName |-> Path[c], peerId |-> <<c>>,
                             ip |-> publicIp, port |-> publicPort,
                             isGoodbye |-> FALSE])
  <2>2. ASSUME Survives(Path[c])
        PROVE  HeardAfar(AdvertOf(c)) = exact
    <3>1. PICK said, who :
            /\ Conveys(Path[c], c, said, who)
            /\ HeardAfar(AdvertOf(c))
                 = Event("discover",
                         [channelName |-> said, peerId |-> <<who>>,
                          ip |-> publicIp, port |-> publicPort,
                          isGoodbye |-> FALSE])
      BY ClientsAreHeard
    <3>2. said = Path[c] /\ who = c
      BY <2>2, <3>1 DEF Conveys
    <3> QED  BY <3>1, <3>2
  <2>3. ASSUME NEW packet \in announced, HeardAfar(packet) = exact
        PROVE  Survives(Path[c])
    <3>1. PICK d \in handled : packet = AdvertOf(d) \/ packet = GoodbyeOf(d)
      BY DEF IInv, Announces
    <3>2. PICK said, who :
            /\ Conveys(Path[d], d, said, who)
            /\ HeardAfar(AdvertOf(d))
                 = Event("discover",
                         [channelName |-> said, peerId |-> <<who>>,
                          ip |-> publicIp, port |-> publicPort,
                          isGoodbye |-> FALSE])
            /\ HeardAfar(GoodbyeOf(d))
                 = Event("goodbye",
                         [channelName |-> said, peerId |-> <<who>>,
                          port |-> publicPort, isGoodbye |-> TRUE])
      BY ClientsAreHeard
    <3>3. exact.event = "discover" /\ exact.data.channelName = Path[c]
          /\ exact.data.peerId = <<c>>
      BY DEF Event
    <3>4. packet = AdvertOf(d)
      BY <2>3, <3>1, <3>2, <3>3 DEF Event
    <3>5. exact.data.channelName = said /\ exact.data.peerId = <<who>>
      BY <2>3, <3>2, <3>4 DEF Event
    <3>6. said = Path[c] /\ <<who>> = <<c>>
      BY <3>3, <3>5
    <3>7. Conveys(Path[d], d, said, who)
      BY <3>2
    <3> QED  BY <3>6, <3>7, ConveysOwn
  <2> QED  BY <2>1, <2>2, <2>3
<1> QED  BY <1>1, Invariant, PTL

\* The goodbye of a client is heard after its socket has closed, and not before,
\* under the channel and the id of its advert, if adverts can tell its channel.
THEOREM GoodbyesAlwaysUndo == Spec => []GoodbyesUndo
<1>1. IInv => GoodbyesUndo
  <2> SUFFICES ASSUME IInv, process = "running", NEW c \in handled
               PROVE  client[c] = "closed" /\ Survives(Path[c]) <=>
                        \E packet \in announced : HeardAfar(packet) = Farewell(c)
    BY DEF GoodbyesUndo
  <2>1. ASSUME client[c] = "closed", Survives(Path[c])
        PROVE  \E packet \in announced : HeardAfar(packet) = Farewell(c)
    <3>1. GoodbyeOf(c) \in announced
      BY <2>1 DEF IInv, Follows
    <3>2. PICK said, who :
            /\ Conveys(Path[c], c, said, who)
            /\ HeardAfar(GoodbyeOf(c))
                 = Event("goodbye",
                         [channelName |-> said, peerId |-> <<who>>,
                          port |-> publicPort, isGoodbye |-> TRUE])
      BY ClientsAreHeard
    <3>3. said = Path[c] /\ who = c
      BY <2>1, <3>2 DEF Conveys
    <3>4. HeardAfar(GoodbyeOf(c)) = Farewell(c)
      BY <3>2, <3>3 DEF Farewell
    <3> QED  BY <3>1, <3>4
  <2>2. ASSUME NEW packet \in announced, HeardAfar(packet) = Farewell(c)
        PROVE  client[c] = "closed" /\ Survives(Path[c])
    <3>1. PICK d \in handled :
             \/ packet = AdvertOf(d)
             \/ packet = GoodbyeOf(d) /\ client[d] = "closed"
      BY DEF IInv, Announces
    <3>2. PICK said, who :
            /\ Conveys(Path[d], d, said, who)
            /\ HeardAfar(AdvertOf(d))
                 = Event("discover",
                         [channelName |-> said, peerId |-> <<who>>,
                          ip |-> publicIp, port |-> publicPort,
                          isGoodbye |-> FALSE])
            /\ HeardAfar(GoodbyeOf(d))
                 = Event("goodbye",
                         [channelName |-> said, peerId |-> <<who>>,
                          port |-> publicPort, isGoodbye |-> TRUE])
      BY ClientsAreHeard
    <3>3. /\ Farewell(c).event = "goodbye"
          /\ Farewell(c).data.channelName = Path[c]
          /\ Farewell(c).data.peerId = <<c>>
      BY DEF Farewell, Event
    <3>4. packet # AdvertOf(d)
      BY <2>2, <3>2, <3>3 DEF Event
    <3>5. packet = GoodbyeOf(d) /\ client[d] = "closed"
      BY <3>1, <3>4
    <3>6. /\ Farewell(c).data.channelName = said
          /\ Farewell(c).data.peerId = <<who>>
      BY <2>2, <3>2, <3>5 DEF Event
    <3>7. said = Path[c] /\ <<who>> = <<c>>
      BY <3>3, <3>6
    <3>8. Conveys(Path[d], d, said, who)
      BY <3>2
    <3>9. d = c /\ Survives(Path[c])
      BY <3>7, <3>8, ConveysOwn
    <3> QED  BY <3>5, <3>9
  <2> QED  BY <2>1, <2>2
<1> QED  BY <1>1, Invariant, PTL

(***************************************************************************)
(* What is heard.  It is said of the moment when it was heard, and stays   *)
(* true because the address and the port never change afterwards, a client *)
(* keeps its handlers, and nothing is heard before.                        *)
(***************************************************************************)

\* An event that says all that was announced of a peer elsewhere.
OfForeign(e) ==
  \E f \in Foreign :
    /\ Faithful(e.data, f)
    /\ e.event = "discover" => "ip" \in DOMAIN e.data /\ f.ip # publicIp

\* The own goodbye, which nothing tells from those of others.
OfClient(e) ==
  /\ e.event = "goodbye"
  /\ \E c \in handled : Faithful(e.data, Params(Listing(c)))

HeardInv ==
  /\ HeardSound
  /\ stage # "ready" => heard = {}

LEMMA HeardSoundSays ==
  HeardSound <=> \A e \in heard : OfClient(e) \/ OfForeign(e)
BY DEF HeardSound, OfClient, OfForeign

\* What is said of a peer by whoever reads its instance name is faithful.
LEMMA FaithfulIs ==
  ASSUME NEW params, NEW name, NEW id, NEW ip, NEW port,
         Told(params, name, id, ip, port),
         NEW said, NEW who, Conveys(name, id, said, who),
         NEW data, {"channelName", "peerId", "port"} \subseteq DOMAIN data,
         data.channelName = said, data.peerId = <<who>>, data.port = port,
         "ip" \in DOMAIN data => data.ip = ip
  PROVE  Faithful(data, params)
<1>1. data.peerId \in {params.peerId, <<Placeholder>>}
  BY DEF Told, Conveys
<1>2. Survives(params.channelName) =>
        data.channelName = params.channelName /\ data.peerId = params.peerId
  BY DEF Told, Conveys
<1>3. \A key \in {"ip", "port"} \cap DOMAIN data : data[key] = params[key]
  BY DEF Told
<1> QED  BY <1>1, <1>2, <1>3 DEF Faithful

\* The params of a peer elsewhere.
LEMMA ForeignTold ==
  ASSUME NEW f \in Foreign
  PROVE  /\ f.port \in Nat \ {0}
         /\ Told(f, f.channelName, f.peerId[1], f.ip, f.port)
         /\ \E said, who : Conveys(f.channelName, f.peerId[1], said, who)
<1>1. /\ f.channelName \in Seq(Symbols) /\ f.port \in Nat \ {0}
      /\ f.peerId[1] \notin {"[", Suffix, Placeholder}
      /\ Told(f, f.channelName, f.peerId[1], f.ip, f.port)
  BY ProcessAssumption DEF Told
<1> QED  BY <1>1, NameDecodes

\* Of the packets of others, whatever is missing, only those count that say all.
LEMMA ForeignSound ==
  ASSUME NEW packet \in Packets, NEW e, e = Heard(packet, publicIp),
         e.event \in {"discover", "goodbye"}
  PROVE  OfForeign(e)
<1>1. PICK f \in Foreign :
        \E sent \in {Advert(f), Goodbye(f)} :
          packet \in {[type \in types |-> sent[type]] : types \in SUBSET DOMAIN sent}
  BY DEF Packets
<1>2. PICK sent \in {Advert(f), Goodbye(f)} :
        packet \in {[type \in types |-> sent[type]] : types \in SUBSET DOMAIN sent}
  BY <1>1
<1>3. PICK types \in SUBSET DOMAIN sent : packet = [type \in types |-> sent[type]]
  BY <1>2
<1>4. Whole(packet)
  BY DEF Heard, Event
<1>5. /\ f.port \in Nat \ {0}
      /\ Told(f, f.channelName, f.peerId[1], f.ip, f.port)
  BY ForeignTold
<1>6. PICK said, who : Conveys(f.channelName, f.peerId[1], said, who)
  BY ForeignTold
<1>7. Reads(f.channelName, f.peerId[1], said, who)
  BY <1>6 DEF Conveys
<1>8. CASE sent = Advert(f)
  <2>1. PICK ttl \in Nat \ {0} : Answers(packet, f, ttl)
    BY <1>3, <1>4, <1>8, AdvertAnswers, RestAnswers
  <2>2. e.event # "none"
    OBVIOUS
  <2>3. /\ f.ip # publicIp
        /\ e = Event("discover",
                     [channelName |-> said, peerId |-> <<who>>,
                      ip |-> f.ip, port |-> f.port, isGoodbye |-> FALSE])
    BY <1>5, <1>7, <2>1, <2>2, AdvertHeard
  <2>4. /\ {"channelName", "peerId", "port", "ip"} \subseteq DOMAIN e.data
        /\ e.data.channelName = said /\ e.data.peerId = <<who>>
        /\ e.data.port = f.port /\ e.data.ip = f.ip
    BY <2>3 DEF Event
  <2>5. Faithful(e.data, f)
    BY <1>5, <1>6, <2>4, FaithfulIs
  <2> QED  BY <2>3, <2>4, <2>5 DEF OfForeign
<1>9. CASE sent = Goodbye(f)
  <2>1. Answers(packet, f, 0) /\ ~Has(packet, "A")
    BY <1>3, <1>4, <1>9, GoodbyeAnswers, RestAnswers
  <2>2. e = Event("goodbye",
                  [channelName |-> said, peerId |-> <<who>>,
                   port |-> f.port, isGoodbye |-> TRUE])
    BY <1>5, <1>7, <2>1, GoodbyeHeard
  <2>3. /\ {"channelName", "peerId", "port"} \subseteq DOMAIN e.data
        /\ e.data.channelName = said /\ e.data.peerId = <<who>>
        /\ e.data.port = f.port /\ "ip" \notin DOMAIN e.data
        /\ e.event = "goodbye"
    BY <2>2 DEF Event
  <2>4. Faithful(e.data, f)
    BY <1>5, <1>6, <2>3, FaithfulIs
  <2> QED  BY <2>3, <2>4 DEF OfForeign
<1> QED  BY <1>2, <1>8, <1>9

\* Of the own packets that come back only goodbyes count.
LEMMA OwnSound ==
  ASSUME IInv, NEW packet \in announced, NEW e, e = Heard(packet, publicIp),
         e.event \in {"discover", "goodbye"}
  PROVE  OfClient(e)
<1>1. PICK c \in handled : packet = AdvertOf(c) \/ packet = GoodbyeOf(c)
  BY DEF IInv, Announces
<1>2. PICK said, who :
        Conveys(Path[c], c, said, who) /\ OwnSays(c, publicIp, said, who)
  BY OwnHeard
<1>3. e = Event("goodbye",
                [channelName |-> said, peerId |-> <<who>>, port |-> publicPort,
                 isGoodbye |-> TRUE])
  BY <1>1, <1>2 DEF OwnSays
<1>4. /\ {"channelName", "peerId", "port"} \subseteq DOMAIN e.data
      /\ e.data.channelName = said /\ e.data.peerId = <<who>>
      /\ e.data.port = publicPort /\ "ip" \notin DOMAIN e.data
      /\ e.event = "goodbye"
  BY <1>3 DEF Event
<1>5. Told(Params(Listing(c)), Path[c], c, publicIp, publicPort)
  BY OwnTold
<1>6. Faithful(e.data, Params(Listing(c)))
  BY <1>2, <1>4, <1>5, FaithfulIs
<1> QED  BY <1>4, <1>6 DEF OfClient

\* Once discovery runs, nothing that it tells or knows of itself changes.
LEMMA ReadyStays ==
  ASSUME IInv, stage = "ready", [Next]_vars
  PROVE  /\ UNCHANGED <<stage, publicIp, publicPort>>
         /\ handled \subseteq handled'
         /\ \/ heard' = heard
            \/ \E packet \in Packets \cup announced :
                 /\ Heard(packet, publicIp).event \in {"discover", "goodbye"}
                 /\ heard' = heard \cup {Heard(packet, publicIp)}
<1>1. externalServer # "binding"
  BY DEF IInv, Booted
<1>2. CASE Starting
  BY <1>1, <1>2 DEF Starting, InitApp, StartWithPublicIp, NoAddress, LocalListens,
                    LocalFails, ExternalListens, ExternalFails, listVars
<1>3. ASSUME NEW c \in Clients, ClientConnects(c)
      PROVE  /\ UNCHANGED <<stage, publicIp, publicPort, heard>>
             /\ handled \subseteq handled'
  BY <1>3 DEF ClientConnects, RefuseClient, AcceptClient, serverVars, listVars
<1>4. ASSUME NEW c \in Clients,
             \/ ClientCloses(c)
             \/ \E payload \in {"data", "null"} : ClientBroadcasts(c, payload)
      PROVE  UNCHANGED <<stage, publicIp, publicPort, heard, handled>>
  BY <1>4 DEF ClientCloses, ClientBroadcasts, serverVars, listVars
<1>5. CASE ProxyConnects \/ WindowCloses \/ Quit \/ UNCHANGED vars
  BY <1>5 DEF ProxyConnects, WindowCloses, Quit, vars, serverVars, listVars
<1>6. ASSUME NEW packet \in Packets \cup announced, ReceivePacket(packet)
      PROVE  /\ UNCHANGED <<stage, publicIp, publicPort, handled>>
             /\ \/ heard' = heard
                \/ /\ Heard(packet, publicIp).event \in {"discover", "goodbye"}
                   /\ heard' = heard \cup {Heard(packet, publicIp)}
  BY <1>6 DEF ReceivePacket, serverVars, listVars
<1> QED  BY <1>2, <1>3, <1>4, <1>5, <1>6 DEF Next

\* Before that it hears nothing.
LEMMA DeafBefore ==
  ASSUME stage # "ready", [Next]_vars
  PROVE  heard' = heard
<1>1. CASE Starting
  BY <1>1 DEF Starting, InitApp, StartWithPublicIp, NoAddress, LocalListens,
              LocalFails, ExternalListens, ExternalFails
<1>2. ASSUME NEW c \in Clients,
             \/ ClientConnects(c) \/ ClientCloses(c)
             \/ \E payload \in {"data", "null"} : ClientBroadcasts(c, payload)
      PROVE  heard' = heard
  BY <1>2 DEF ClientConnects, ClientCloses, ClientBroadcasts
<1>3. CASE ProxyConnects \/ WindowCloses \/ Quit \/ UNCHANGED vars
  BY <1>3 DEF ProxyConnects, WindowCloses, Quit, vars
<1>4. ~(\E packet \in Packets \cup announced : ReceivePacket(packet))
  BY DEF ReceivePacket
<1> QED  BY <1>1, <1>2, <1>3, <1>4 DEF Next

LEMMA HeardStep ==
  ASSUME IInv, HeardInv, [Next]_vars
  PROVE  HeardInv'
<1>1. CASE stage # "ready"
  <2>1. heard' = {}
    BY <1>1, DeafBefore DEF HeardInv
  <2> QED  BY <2>1 DEF HeardInv, HeardSound
<1>2. CASE stage = "ready"
  <2>1. /\ UNCHANGED <<stage, publicIp, publicPort>>
        /\ handled \subseteq handled'
    BY <1>2, ReadyStays
  <2>2. ASSUME NEW e, OfClient(e) \/ OfForeign(e)
        PROVE  OfClient(e)' \/ OfForeign(e)'
    BY <2>1, <2>2 DEF OfClient, OfForeign, Params, Listing
  <2>3. ASSUME NEW e \in heard'
        PROVE  OfClient(e) \/ OfForeign(e)
    <3>1. CASE e \in heard
      BY <3>1, HeardSoundSays DEF HeardInv
    <3>2. CASE e \notin heard
      <4>1. PICK packet \in Packets \cup announced :
              /\ e = Heard(packet, publicIp)
              /\ e.event \in {"discover", "goodbye"}
        BY <1>2, <3>2, ReadyStays
      <4> QED  BY <4>1, ForeignSound, OwnSound
    <3> QED  BY <3>1, <3>2
  <2>4. \A e \in heard' : OfClient(e)' \/ OfForeign(e)'
    BY <2>2, <2>3
  <2>5. HeardSound'
    BY <2>4 DEF HeardSound, OfClient, OfForeign
  <2> QED  BY <1>2, <2>1, <2>5 DEF HeardInv
<1> QED  BY <1>1, <1>2

\* Of all the packets of others, whole or broken, and of the own ones that come
\* back, handleResponse (peer-discovery.js) emits only events that say all that
\* was announced of one peer: no mixture, nothing missing, no wrong name but of
\* those that String.replace spoils, and nobody at the own address.
THEOREM HeardAlwaysSound == Spec => []HeardSound
<1>1. Init => HeardInv
  BY DEF Init, HeardInv, HeardSound
<1>2. IInv /\ HeardInv /\ [Next]_vars => HeardInv'
  BY HeardStep
<1>3. HeardInv => HeardSound
  BY DEF HeardInv
<1> QED  BY <1>1, <1>2, <1>3, Invariant, PTL DEF Spec
=============================================================================
