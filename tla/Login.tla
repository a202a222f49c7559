--------------------------------- MODULE Login ---------------------------------
(***************************************************************************)
(* What LoxoneClient.connect asks the Miniserver in its handshake, what it *)
(* makes of the answers and which error it raises (adapter/client.py), the *)
(* primitives it uses (adapter/auth.py), and the fetch of the public key   *)
(* (adapter/discovery.py), composed with the life of the client, Session.  *)
(* The Miniserver is an honest one: it refuses a session key it cannot     *)
(* read, users it does not know and hashes that are not the ones it        *)
(* computes itself. Its answers may still be lost, garbled or so late that *)
(* a later attempt takes them. A hash is told by what goes into it.        *)
(***************************************************************************)
EXTENDS Session

VARIABLES
    right,      \* user and password are those of the Miniserver
    scheme,     \* the hash algorithm of the Miniserver for this user
    accepted,   \* the connection whose session key the Miniserver accepted last
    issued,     \* the HMAC key the Miniserver holds for this user
    sessionKey, \* _session_key: the connection it was made for
    hmacKey,    \* _hmac_key_hex
    hash,       \* gettoken_hash, while connect asks for a token
    token,      \* _token: the connection it was issued on, 0 for None
    error,      \* what the last call raised
    misled      \* ghost: the last attempt took an answer to an earlier one

serverVars == <<right, scheme, accepted, issued>>
credentialVars == <<sessionKey, hmacKey, hash, token>>
loginVars == <<serverVars, credentialVars, error, misled>>

Schemes == {"SHA1", "SHA256", "SHA512"}
NoKey == <<"none", 0>>
HmacKeys == {NoKey} \union ({"getkey2", "gettoken"} \X Sessions)
Hashes == [algorithm : Schemes \union {"none"}, right : BOOLEAN, key : HmacKeys]
Errors == {"none", "HTTPError", "JSONDecodeError", "DiscoveryError", "AuthError", "OSError",
           "ProtocolError", "OverflowError", "AuthenticationError", "ClientError"}

(***************************************************************************)
(* How a Miniserver may spell its algorithm in hashAlg; an old one does    *)
(* not mention it.                                                         *)
(***************************************************************************)
Spellings == [SHA1 |-> {"", "SHA1", "sha-1"}, SHA256 |-> {"SHA256", "sha-256"},
              SHA512 |-> {"SHA512"}]

(***************************************************************************)
(* HashAlgorithm.from_miniserver: case and dashes do not matter.           *)
(***************************************************************************)
FromMiniserverAssumingSHA256(raw) ==   \* mutant: a missing field means SHA256
    IF raw \in {"SHA1", "sha-1"} THEN "SHA1"
    ELSE IF raw \in {"", "SHA256", "sha-256"} THEN "SHA256" ELSE "unsupported"

FromMiniserverVerbatim(raw) ==   \* mutant: the spelling is taken for the algorithm
    IF raw = "" THEN "SHA1" ELSE raw

FromMiniserver(raw) ==
    IF raw \in {"", "SHA1", "sha-1"} THEN "SHA1"
    ELSE IF raw \in {"SHA256", "sha-256"} THEN "SHA256" ELSE "unsupported"

(***************************************************************************)
(* compute_gettoken_hash, on either side.                                  *)
(***************************************************************************)
GettokenHash(algorithm, knows, key) == [algorithm |-> algorithm, right |-> knows, key |-> key]

NoHash == GettokenHash("none", FALSE, NoKey)

(***************************************************************************)
(* parse_miniserver_public_key: the markers may be those of a certificate, *)
(* the body has to be a bare RSA key; a true certificate is not one.       *)
(***************************************************************************)
Parses(reply) == reply.markers # "none" /\ reply.body = "rsa key"

(***************************************************************************)
(* The public key as the Miniserver sends it over HTTP.                    *)
(***************************************************************************)
KeyReplies == [http : {"2xx", "other"}, envelope : {"good", "bad", "garbage"},
               markers : {"certificate", "public key", "none"},
               body : {"rsa key", "other key", "certificate", "garbage"}]

KeyError(reply) == IF reply.http # "2xx" THEN "HTTPError"
                   ELSE IF reply.envelope = "garbage" THEN "JSONDecodeError"
                   ELSE IF reply.envelope = "bad" THEN "DiscoveryError"
                   ELSE IF ~ Parses(reply) THEN "AuthError" ELSE "none"

-------------------------------------------------------------------------------
LoginInit ==
    /\ Init
    /\ right \in BOOLEAN
    /\ scheme \in Schemes
    /\ accepted = 0
    /\ issued = NoKey
    /\ sessionKey = 0
    /\ hmacKey = NoKey
    /\ hash = NoHash
    /\ token = 0
    /\ error = "none"
    /\ misled = FALSE

Call == Connect /\ error' = "none" /\ UNCHANGED <<serverVars, credentialVars, misled>>

GetPublicKey ==
    /\ FetchKey
    /\ error' \in {KeyError(reply) : reply \in KeyReplies}
    /\ step' = "opening" <=> error' = "none"
    /\ UNCHANGED <<serverVars, credentialVars, misled>>

OpenRaises ==
    OpenFails /\ error' = "OSError" /\ UNCHANGED <<serverVars, credentialVars, misled>>

(***************************************************************************)
(* A session key is made for each connection.                              *)
(***************************************************************************)
Open ==
    /\ OpenTransport
    /\ sessionKey' = conn'
    /\ misled' = FALSE
    /\ UNCHANGED <<serverVars, hmacKey, hash, token, error>>

(***************************************************************************)
(* What the Miniserver computes for this user.                             *)
(***************************************************************************)
Expected == GettokenHash(scheme, TRUE, issued)

(***************************************************************************)
(* What the Miniserver does with the request connect is at, and what it    *)
(* says. It accepts the session key or not. It cannot read a command under *)
(* a key it did not accept, may know the user or not, gives a one-time key *)
(* with getkey2, and with the token perhaps another that replaces it.      *)
(***************************************************************************)
Answered(said) ==
    /\ UNCHANGED <<right, scheme>>
    /\ CASE step = "keyexchange" ->
               said = "given" /\ accepted' \in {accepted, conn} /\ UNCHANGED issued
         [] step = "getkey2" ->
               /\ \/ said = "given" /\ accepted = conn /\ issued' = <<"getkey2", conn>>
                  \/ said = "refused" /\ (accepted # conn \/ ~ right) /\ UNCHANGED issued
               /\ UNCHANGED accepted
         [] step = "gettoken" ->
               /\ IF accepted = conn /\ hash = Expected
                  THEN \/ said = "given" /\ UNCHANGED issued
                       \/ said = "replaced" /\ issued' = <<"gettoken", conn>>
                  ELSE said = "refused" /\ UNCHANGED issued
               /\ UNCHANGED accepted
         [] OTHER -> said = "given" /\ UNCHANGED <<accepted, issued>>

(***************************************************************************)
(* An exchange ends with the answer a, and the handshake goes on or raises *)
(* the given error because of it.                                          *)
(***************************************************************************)
Accepts(a, said) ==
    /\ HandshakeStep(a, said)
    /\ Answered(said)
    /\ misled' = (misled \/ a.of # conn)
    /\ UNCHANGED <<sessionKey, error>>

Raises(class, a, said) ==
    /\ HandshakeRefused(a, said)
    /\ Answered(said)
    /\ misled' = (misled \/ a.of # conn)
    /\ error' = class
    /\ hash' = NoHash
    /\ UNCHANGED <<sessionKey, token>>

(***************************************************************************)
(* connect does not look at the code of the answer to keyexchange, nor at  *)
(* that of the answer to enablebinstatusupdate.                            *)
(***************************************************************************)
KeyExchanged(a, said) ==
    step = "keyexchange" /\ Accepts(a, said) /\ UNCHANGED <<hmacKey, hash, token>>

Enabled(a, said) ==
    step = "enable" /\ Accepts(a, said) /\ UNCHANGED <<hmacKey, hash, token>>

(***************************************************************************)
(* getkey2 is answered with a one-time key and an algorithm the client     *)
(* knows: the hash for gettoken is computed.                               *)
(***************************************************************************)
KeysGiven(a, said) ==
    /\ step = "getkey2"
    /\ a.says = "given"
    /\ Accepts(a, said)
    /\ hmacKey' = <<"getkey2", a.of>>
    /\ \E raw \in Spellings[scheme] :
          /\ FromMiniserver(raw) # "unsupported"
          /\ hash' = GettokenHash(FromMiniserver(raw), right, hmacKey')
    /\ UNCHANGED token

KeysRefused(a, said) ==
    /\ step = "getkey2"
    /\ a.says = "refused"
    /\ Raises("AuthenticationError", a, said)
    /\ UNCHANGED hmacKey

(***************************************************************************)
(* The answer is garbled: it is no object, or lacks the key or only the    *)
(* salt; or its key is not hexadecimal; or the algorithm is unknown. The   *)
(* key is kept as soon as it was read.                                     *)
(***************************************************************************)
KeysUnusable(a, said) ==
    /\ step = "getkey2"
    /\ a.says = "given"
    /\ \/ Raises("ProtocolError", a, said) /\ hmacKey' \in {hmacKey, <<"getkey2", a.of>>}
       \/ Raises("AuthError", a, said) /\ hmacKey' = <<"getkey2", a.of>>

TokenGivenKeepingKey(a, said) ==   \* mutant: the replacement key is not taken over
    /\ step = "gettoken"
    /\ a.says # "refused"
    /\ Accepts(a, said)
    /\ token' = a.of
    /\ hash' = NoHash
    /\ UNCHANGED hmacKey

(***************************************************************************)
(* gettoken is answered with a token and perhaps with a key that replaces  *)
(* the one of getkey2.                                                     *)
(***************************************************************************)
TokenGiven(a, said) ==
    /\ step = "gettoken"
    /\ a.says # "refused"
    /\ Accepts(a, said)
    /\ token' = a.of
    /\ hmacKey' = IF a.says = "replaced" THEN <<"gettoken", a.of>> ELSE hmacKey
    /\ hash' = NoHash

TokenRefused(a, said) ==
    /\ step = "gettoken"
    /\ a.says = "refused"
    /\ Raises("AuthenticationError", a, said)
    /\ UNCHANGED hmacKey

(***************************************************************************)
(* The answer is garbled, or its date is beyond what Python can represent. *)
(***************************************************************************)
TokenUnusable(a, said) ==
    /\ step = "gettoken"
    /\ a.says # "refused"
    /\ Raises("ProtocolError", a, said) \/ Raises("OverflowError", a, said)
    /\ UNCHANGED hmacKey

(***************************************************************************)
(* An exchange times out, is aborted or cancelled, whether or not the      *)
(* Miniserver has got the request; or it has refused the connection.       *)
(***************************************************************************)
ExchangeFails(said) ==
    /\ Answered(said) \/ UNCHANGED <<serverVars, stale>>
    /\ HandshakeFails(said)
    /\ error' = "ClientError"
    /\ hash' = NoHash
    /\ UNCHANGED <<sessionKey, hmacKey, token, misled>>

CloseClient == Close /\ error' = "none" /\ UNCHANGED <<serverVars, credentialVars, misled>>

Elsewhere ==
    /\ \/ TasksAwaited \/ TeardownEnds
       \/ \E n \in Sessions : Tasks(n)
       \/ \E a \in unread : LateAnswer(a)
    /\ UNCHANGED loginVars

Ended(a, said) ==
    \/ KeyExchanged(a, said) \/ KeysGiven(a, said) \/ TokenGiven(a, said) \/ Enabled(a, said)
    \/ KeysRefused(a, said) \/ KeysUnusable(a, said)
    \/ TokenRefused(a, said) \/ TokenUnusable(a, said)

LoginNext ==
    \/ Call \/ GetPublicKey \/ OpenRaises \/ Open \/ CloseClient
    \/ \E said \in Verdicts : \/ ExchangeFails(said)
                              \/ \E a \in {Own(said)} \union orphans : Ended(a, said)
    \/ Elsewhere

LoginSpec == LoginInit /\ [][LoginNext]_<<vars, loginVars>> /\ Fairness

-------------------------------------------------------------------------------
(***************************************************************************)
(* The type invariant, with the one of Session.                            *)
(***************************************************************************)
LoginTypeOK ==
    /\ TypeOK
    /\ right \in BOOLEAN
    /\ scheme \in Schemes
    /\ accepted \in 0 .. MaxSessions
    /\ issued \in HmacKeys
    /\ sessionKey \in 0 .. MaxSessions
    /\ hmacKey \in HmacKeys
    /\ hash \in Hashes
    /\ token \in 0 .. MaxSessions
    /\ error \in Errors
    /\ misled \in BOOLEAN

(***************************************************************************)
(* A client that is connected holds the credentials of this connection and *)
(* no others, although earlier attempts left theirs behind in whatever     *)
(* combination they had come to: its session key is the one the Miniserver *)
(* accepted, its token was issued now, and its HMAC key is the one the     *)
(* Miniserver will check the token with, replaced or not. The one way to   *)
(* hold an older token is to use the object again and to take an answer to *)
(* an earlier attempt's gettoken; then the rest may be older, too.         *)
(***************************************************************************)
ConnectedHoldsCredentials ==
    step = "connected" =>
        /\ right
        /\ sessionKey = conn
        /\ \/ token = conn /\ accepted = conn /\ hmacKey = issued
           \/ token < conn /\ misled /\ reused

(***************************************************************************)
(* "AuthenticationError: The Miniserver refused our credentials"           *)
(* (client.py:80). With the right ones, whatever way the Miniserver spells *)
(* its algorithm and whatever is lost or garbled, connect blames them in   *)
(* two cases only: the Miniserver had refused the session key, which       *)
(* connect does not notice, or the object is used again and this attempt   *)
(* took an answer to an earlier one.                                       *)
(***************************************************************************)
BlameIsJustified ==
    error = "AuthenticationError" => ~ right \/ accepted # conn \/ (misled /\ reused)
===============================================================================
