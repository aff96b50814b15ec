--------------------------- MODULE MCServerlessApi ---------------------------
EXTENDS ServerlessApi

CONSTANTS ip, mail, r1, r2, a1, a2, part

OneEach == [k \in Key |-> 1]
\* The second request names no e-mail.
SameAddress == r1 :> <<ip, mail>> @@ r2 :> <<ip>>

BaseAccountFile == <<a1>>
MoreAccountFile == <<a2, a1>>
BaseEntityFile == <<a1>>
SearchedFile == <<a1>>
ContactFile == <<a1>>
PartFile == <<part>>
=============================================================================
