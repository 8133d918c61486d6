\* Every builder and parser, and the reply sizing of ReceiveMessage, against
\* the reference wire format; the open-flag and errno conversions against
\* the spec's Linux values and error table.
CONSTANTS
    Msizes <- MCMsizes
    MaxSize = 65536
    Names <- MCNames
    Payloads <- MCPayloads
    StrBufs <- MCStrBufs
    HaikuO <- MCHaikuO
    Errnos <- MCErrnos
SPECIFICATION Spec
INVARIANT BuildIsWireFormat
 
INVARIANT OpenFlagsKeepMeaning
INVARIANT ErrorTableFollowsSpec
\* Each behaviour is one call on a fresh message; it ends there.
CHECK_DEADLOCK FALSE
