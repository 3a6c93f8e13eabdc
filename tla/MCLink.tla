-------------------------------- MODULE MCLink --------------------------------
EXTENDS Link, BER, CRC

MCDeviceDecode(b) == ssmp_decode(BER_decode("device", b))
MCTexts == {<<45, 45, 45, 45, 32, 45, 45, 32, 45, 45>>}
MCMasks == {32769}
MCInitial == [interlock |-> 0, mode |-> [d \in Doors |-> 3], delay |-> [d \in Doors |-> 5]]
Rq(tag, oid, value) == [tag |-> tag, oid |-> oid, value |-> value]
Delay1 == Base \o <<3, 1, 2>>
MCRequests == {
  Rq(GET, Delay1, Nothing), Rq(SET, Delay1, Number(22)), Rq(SET, Delay1, Number(61))}
MCEvents == {[oid |-> Base \o <<3, 2, 5>>, value |-> Boolean(TRUE)]}
=============================================================================
