------------------------------- MODULE AgentCard -------------------------------
(***************************************************************************)
(* The signed agent card: what the seller serves (src/agent-card.ts,       *)
(* src/card-signing.ts) and how a buyer that has pinned the seller's key   *)
(* judges a card (buyer/card-verify.mjs, the twin of verifyCard in         *)
(* card-signing.ts).  Cryptography is ideal: a signature verifies under    *)
(* the key that made it, for the payload and the header it was made over   *)
(* and no other, and a thumbprint names one key.                           *)
(***************************************************************************)
CONSTANTS Key,       \* P-256 key pairs
          NoKey,     \* no key is configured, or pinned
          Malformed, \* a secret that is not of the form of a P-256 private key
          Unusable   \* one of that form that WebCrypto does not import

ASSUME AgentCardAssumption == /\ NoKey \notin Key
                              /\ Malformed \notin Key \cup {NoKey}
                              /\ Unusable \notin Key \cup {NoKey, Malformed}

\* What AGENT_CARD_SIGNING_KEY may hold.
Secret == Key \cup {NoKey, Malformed, Unusable}

\* A malformed secret is treated as absent; only the form of it is looked at.
SigningKey(secret) == IF secret = Malformed THEN NoKey ELSE secret

\* A JWS: its protected header, the key that made it and the payload it was made
\* over, which is the canonical form of the card without its signatures.
\* "other" stands for another algorithm, or for a header that does not parse.
\* One that is not in base64 was made by no key, over nothing.
Garbled(kid) == [alg |-> "ES256", kid |-> kid, by |-> NoKey, over |-> NoKey]
Signature(Offers) == [alg : {"ES256", "other"}, kid : Key, by : Key, over : Offers]
                         \cup {Garbled(k) : k \in Key}

Sign(offers, key) == [alg |-> "ES256", kid |-> key, by |-> key, over |-> offers]

\* The card with one signature, in place of any it had.
SignCard(offers, key) == [offers |-> offers, signatures |-> {Sign(offers, key)}]

\* The key is imported for the signature: where that throws there is no card, but
\* a bare 500.
CardFails(secret) == SigningKey(secret) = Unusable

\* Else the card the seller serves: unsigned when it has no key.
AgentCardHandler(offers, secret) ==
    IF SigningKey(secret) = NoKey THEN [offers |-> offers, signatures |-> {}]
                                  ELSE SignCard(offers, SigningKey(secret))

\* The key the seller announces, never imported here; a 404 without one.
JwksHandler(secret) == {SigningKey(secret)} \ {NoKey}

\* Bug: a header that names the trusted key is taken for its signature.
Verifies_HeaderOnly(s, offers, trusted) == s.alg = "ES256" /\ s.kid = trusted

\* A signature counts if its header names the trusted key, which made it over
\* just these offers.
Verifies(s, offers, trusted) == /\ s.alg = "ES256" /\ s.kid = trusted
                                /\ s.by = trusted /\ s.over = offers

\* A header that cannot be decoded is passed over, a signature is not.
Throws(s, trusted) == s = Garbled(trusted)

\* How the check may end, by the order of the signatures.  Any one that counts is
\* enough: a card may carry several while keys change.
VerifyCard(card, trusted) ==
    LET valid   == \E s \in card.signatures : Verifies(s, card.offers, trusted)
        garbled == \E s \in card.signatures : Throws(s, trusted)
    IN IF card.signatures = {} THEN {"card_unsigned"}
       ELSE {v \in {"ok", "error", "card_signature_invalid"} :
               CASE v = "ok" -> valid
                 [] v = "error" -> garbled
                 [] v = "card_signature_invalid" -> ~valid /\ ~garbled}
=============================================================================
