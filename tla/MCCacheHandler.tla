--------------------------- MODULE MCCacheHandler ---------------------------
(* CacheHandler for TLC: a field that is the same for all and a private one, *)
(* keys as the names they are made of.                                       *)
EXTENDS CacheHandler

CONSTANTS news, mail, ann, bob

MCPublicKey == [g \in Field |-> <<g>>]
MCPrivateKey == [s \in Subject |-> [g \in Field |-> <<s, g>>]]
MCKey == {<<g>> : g \in Field} \cup (Subject \X Field)

(* Without OIDC the subject is the header.                                   *)
MCSubjectOf == [h \in Header |-> h]
MCIdentity == [h \in Header \cup {NoHeader} |-> h]
=============================================================================
