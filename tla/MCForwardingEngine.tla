--------------------------- MODULE MCForwardingEngine --------------------------
(* Small instances of ForwardingEngine: a mobile that is seen on ports 1 and 32, and a
   rendezvous point with the consumers behind port 2. *)
EXTENDS ForwardingEngine

Mobile == <<"rv", "m">>
Content == <<"rv", "m", "x">>
Trace1 == <<"rv", "trace", "m", "s1">>
Trace2 == <<"rv", "trace", "m", "s2">>

OneMobile == {Mobile}
ComponentHash ==
    [c \in {"rv", "m", "x", "trace", "s1", "s2", "y"} |->
        CASE c = "rv" -> 0 [] c = "m" -> 1 [] c = "x" -> 2 [] c = "trace" -> 3
          [] c = "s1" -> 4 [] c = "s2" -> 5 [] c = "y" -> 6]
HashKey == [p \in Prefix |-> NameHashes(p)]
RvRoute == {[hashes |-> NameHashes(<<"rv">>), port |-> 2, expiry |-> 0]}

Names2 == {Content, Trace1, Trace2}
Seq2 == <<"s1", "s2">>
FromNames == [n \in Name |-> IF n = Content THEN {2} ELSE {1, 32}]
\* The nodes behind different ports choose different nonces.
PortNonces == [q \in Port |-> IF q = 32 THEN {2} ELSE {1}]
FromData == [d \in DataName |-> IF d = Content THEN {1} ELSE {2}]

\* Content below a prefix, and both asked for, on ports inside and outside of the bitmap.
Segment == <<"rv", "m", "x", "y">>
ContentNames == {Mobile, Content}
ContentData == {Content, Segment}
FromAskers == [n \in Name |-> IF n = Content THEN {2, 32, 33} ELSE {32}]
AllNonces == [q \in Port |-> Nonce]
FromProducer == [d \in DataName |-> {2}]

Legs(c, f, a) == [control |-> c, flowMod |-> f, syncAck |-> a]
NoDelays == Legs(0, 0, 0)
NoExtraDelay == [g \in Generation |-> NoDelays]
NoLoss == Legs("never", "never", "never")
AckLoss == Legs("never", "never", "random")
NoDrops == Legs(0, 0, 0)
================================================================================
