----------------------------- MODULE OtpService -----------------------------
(***************************************************************************)
(* RedisOTPService: one Redis key per namespace holds the account's        *)
(* current one-time password.  Every operation below is one Redis command. *)
(* Codes are numbered in the order they are generated (an 8-character      *)
(* random code is taken never to repeat); 0 is an absent key.              *)
(***************************************************************************)
EXTENDS Naturals

CONSTANT MaxCodes       \* bound: how many codes are generated in a behaviour

ASSUME OtpAssumption == MaxCodes \in Nat

VARIABLES
    otp,        \* otp[ns]: the code stored under the key of namespace ns
    minted,     \* how many codes have been generated
    accepted,   \* history: accepted[c] = how many requests code c satisfied
    deleted     \* history: the codes whose consumption has been completed

otpVars == <<otp, minted, accepted, deleted>>

Namespaces == {"email_verify", "password_reset", "mfa_login",
               "mfa_sms_setup", "mfa_email_setup"}

OtpTypeOK ==
    /\ otp \in [Namespaces -> 0..MaxCodes]
    /\ minted \in 0..MaxCodes
    /\ accepted \in [1..MaxCodes -> Nat]
    /\ deleted \subseteq 0..MaxCodes

OtpInit ==
    /\ otp = [ns \in Namespaces |-> 0]
    /\ minted = 0
    /\ accepted = [c \in 1..MaxCodes |-> 0]
    /\ deleted = {}

\* generate_and_store: a fresh code replaces whatever the key held (setex).
Setex(ns) ==
    /\ minted < MaxCodes
    /\ minted' = minted + 1
    /\ otp' = [otp EXCEPT ![ns] = minted + 1]
    /\ UNCHANGED <<accepted, deleted>>

\* The read and comparison of verify and verify_and_consume: an absent key
\* and a different code both raise.
Matches(ns, code) == otp[ns] # 0 /\ otp[ns] = code

\* A request that goes on because its code matched (bookkeeping only).
Accept(code) ==
    /\ accepted' = [accepted EXCEPT ![code] = @ + 1]
    /\ UNCHANGED <<otp, minted, deleted>>

\* Mutated form of Delete: the key of the default namespace is removed.
Delete_DefaultNamespace(ns, code) ==
    /\ otp' = [otp EXCEPT !["email_verify"] = 0]
    /\ deleted' = deleted \cup {code}
    /\ UNCHANGED <<minted, accepted>>

\* The delete of verify_and_consume: it removes the key, not the code compared.
Delete(ns, code) ==
    /\ otp' = [otp EXCEPT ![ns] = 0]
    /\ deleted' = deleted \cup {code}
    /\ UNCHANGED <<minted, accepted>>

\* OTP_TTL_SECONDS passed: Redis drops the key.
Expire(ns) ==
    /\ otp[ns] # 0
    /\ otp' = [otp EXCEPT ![ns] = 0]
    /\ UNCHANGED <<minted, accepted, deleted>>
=============================================================================
