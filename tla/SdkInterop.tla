----------------------------- MODULE SdkInterop -----------------------------
(* One envelope travelling between the five SDKs: the sender's SDK builds   *)
(* its canonical form, signs it and encodes it (the full or the compact     *)
(* JSON); on the way one field of the text may change; then a peer of every *)
(* SDK decodes, validates and verifies the same text at the same instant.   *)
(* Two rows of the canonical form differ between the SDKs (how an optional  *)
(* field that is absent, null or empty is written, and how a number is),    *)
(* so they are modelled as what each SDK writes. Numbers are half           *)
(* milliseconds: an odd one has a fraction.                                 *)
EXTENDS Integers

CONSTANTS SdkTimes,      \* timestampMs values, in half milliseconds
          SdkTtls,       \* ttlMs values, in half milliseconds
          SdkSkewMs,     \* MAX_CLOCK_SKEW_MS
          SdkMaxTtlMs,   \* MAX_TTL_MS
          MaxSdkTime     \* bound on the clock, in milliseconds

ASSUME SdkAssumption ==
  SdkTimes \subseteq Int /\ SdkTtls \subseteq Int /\ SdkSkewMs \in Nat /\ SdkMaxTtlMs \in Nat
    /\ MaxSdkTime \in Nat

VARIABLES sdkTime,       \* milliseconds
          letter,        \* {} or the envelope as its signer saw it
          envText,       \* {} or what is on the wire
          altered,       \* a field of the text has been changed
          judged         \* {} or which SDKs accepted the text, and when

sdkVars == <<sdkTime, letter, envText, altered, judged>>

Sdks == {"ts", "browser", "python", "go", "rust"}

(* recipient, capability and correlationId are written by the same rule:    *)
(* "opt" stands for one of them. A content of "separator" holds U+2028.     *)
OptValues == {"absent", "null", "empty", "text"}
SdkEnvelopes ==
  [opt : OptValues, content : {"plain", "separator"},
   nonce : {"text", "blank"}, ts : SdkTimes, ttl : SdkTtls]
Algs == {"HS256", "ED25519"}

Fraction(n) == n % 2 = 1
Truncated(n) == n - (n % 2)
Whole(e) == ~Fraction(e.ts) /\ ~Fraction(e.ttl)

(***************************************************************************)
(* canonicalizeEnvelope in each SDK: the parts of its text that can differ. *)
(***************************************************************************)
Omitted == "omitted"
Escaped(content) == IF content = "separator" THEN "escaped" ELSE content

TsCanonical(e) ==
  [opt |-> IF e.opt = "absent" THEN Omitted ELSE e.opt,
   content |-> e.content, nonce |-> e.nonce,
   ts |-> e.ts, ttl |-> e.ttl]
BrowserCanonical(e) == TsCanonical(e)
RustCanonical(e) ==
  [TsCanonical(e) EXCEPT
     !.opt = IF e.opt \in {"absent", "null"} THEN Omitted ELSE e.opt]
PyCanonical(e) ==
  [RustCanonical(e) EXCEPT !.ts = Truncated(e.ts), !.ttl = Truncated(e.ttl)]
GoCanonical(e) ==
  [TsCanonical(e) EXCEPT
     !.opt = IF e.opt = "text" THEN "text" ELSE Omitted,
     !.content = Escaped(e.content)]

(***************************************************************************)
(* validate_envelope: its errors are those of the reference implementation; *)
(* Go and Rust hold 64-bit integers, so a fraction never reaches them.      *)
(***************************************************************************)
TsValid(e, now) ==
  /\ e.nonce = "text"
  /\ e.ttl > 0
  /\ e.ttl <= 2 * SdkMaxTtlMs
  /\ e.ts <= 2 * (now + SdkSkewMs)
  /\ e.ts + e.ttl >= 2 * now
BrowserValid(e, now) == TsValid(e, now)
PyValid(e, now) == TsValid(e, now)
RustValid(e, now) == TsValid(e, now)
GoValid(e, now) == TsValid(e, now)

ValidFor(sdk, e, now) ==
  CASE sdk = "ts" -> TsValid(e, now)
    [] sdk = "browser" -> BrowserValid(e, now)
    [] sdk = "python" -> PyValid(e, now)
    [] sdk = "rust" -> RustValid(e, now)
    [] sdk = "go" -> GoValid(e, now)

(***************************************************************************)
(* Encoding and decoding. The browser and Go read and write the full form   *)
(* only. A compact signature without "a" is read as HS256; the full form    *)
(* has no default, and no verifier accepts an unknown algorithm.            *)
(***************************************************************************)
Shapes(sdk) == IF sdk \in {"browser", "go"} THEN {"full"} ELSE {"full", "compact"}
Represents(sdk, e) == sdk \in {"go", "rust"} => Whole(e)

(* What the signer's values look like in the text: Go's omitempty drops an  *)
(* empty field; the others drop one that has no value, and only that.       *)
TsEncoded(e) == e
PyEncoded(e) == e
RustEncoded(e) == e
GoEncoded(e) == [e EXCEPT !.opt = IF @ = "empty" THEN "absent" ELSE @]
Encoded(sdk, e) ==
  CASE sdk = "python" -> PyEncoded(e)
    [] sdk = "rust" -> RustEncoded(e)
    [] sdk = "go" -> GoEncoded(e)
    [] OTHER -> TsEncoded(e)

DecodedAlg(text) ==
  IF text.shape = "compact" /\ text.alg = Omitted THEN "HS256" ELSE text.alg
Decodes(sdk, text) == text.shape \in Shapes(sdk) /\ Represents(sdk, text.env)

(* The compact form of each SDK that has one: its fields are read back one  *)
(* by one into the full form.                                               *)
TsDecoded(text) == [env |-> text.env, alg |-> DecodedAlg(text), sig |-> text.sig]
PyDecoded(text) == [env |-> text.env, alg |-> DecodedAlg(text), sig |-> text.sig]
RustDecoded(text) ==
  [env |-> [text.env EXCEPT !.opt = IF @ = "null" THEN "absent" ELSE @],
   alg |-> DecodedAlg(text), sig |-> text.sig]
Decoded(sdk, text) ==
  CASE sdk = "python" -> PyDecoded(text)
    [] sdk = "rust" -> RustDecoded(text)
    [] OTHER -> TsDecoded(text)

(***************************************************************************)
(* Signing and verifying, under a shared secret or a key pair; the browser  *)
(* has key pairs only.                                                      *)
(***************************************************************************)
SdkAlgs(sdk) == IF sdk = "browser" THEN {"ED25519"} ELSE Algs

TsSign(e, alg) == [alg |-> alg, over |-> TsCanonical(e)]
BrowserSign(e, alg) == [alg |-> "ED25519", over |-> BrowserCanonical(e)]
PySign(e, alg) == [alg |-> alg, over |-> PyCanonical(e)]
RustSign(e, alg) == [alg |-> alg, over |-> RustCanonical(e)]
GoSign(e, alg) == [alg |-> alg, over |-> GoCanonical(e)]
Sign(sdk, e, alg) ==
  CASE sdk = "ts" -> TsSign(e, alg)
    [] sdk = "browser" -> BrowserSign(e, alg)
    [] sdk = "python" -> PySign(e, alg)
    [] sdk = "rust" -> RustSign(e, alg)
    [] sdk = "go" -> GoSign(e, alg)

TsVerify(m, key) == m.alg = key /\ m.sig = [alg |-> key, over |-> TsCanonical(m.env)]
BrowserVerify(m, key) ==
  m.alg = "ED25519" /\ key = "ED25519" /\ m.sig = [alg |-> key,
                                                   over |-> BrowserCanonical(m.env)]

(* Fault: the body is left out of what is verified. *)
PyVerifyHeaderOnly(m, key) ==
  /\ m.alg = key
  /\ m.sig.alg = key
  /\ [m.sig.over EXCEPT !.content = ""] = [PyCanonical(m.env) EXCEPT !.content = ""]
PyVerify(m, key) == m.alg = key /\ m.sig = [alg |-> key, over |-> PyCanonical(m.env)]
RustVerify(m, key) == m.alg = key /\ m.sig = [alg |-> key, over |-> RustCanonical(m.env)]
GoVerify(m, key) == m.alg = key /\ m.sig = [alg |-> key, over |-> GoCanonical(m.env)]
Verify(sdk, m, key) ==
  CASE sdk = "ts" -> TsVerify(m, key)
    [] sdk = "browser" -> BrowserVerify(m, key)
    [] sdk = "python" -> PyVerify(m, key)
    [] sdk = "rust" -> RustVerify(m, key)
    [] sdk = "go" -> GoVerify(m, key)

Accepts(sdk, text, key, now) ==
  /\ Decodes(sdk, text)
  /\ ValidFor(sdk, Decoded(sdk, text).env, now)
  /\ Verify(sdk, Decoded(sdk, text), key)

(***************************************************************************)
(* Behaviour                                                               *)
(***************************************************************************)
SdkInit ==
  /\ sdkTime = 0
  /\ letter = {}
  /\ envText = {}
  /\ altered = FALSE
  /\ judged = {}

(* create_envelope, sign_envelope_* and encode: no SDK's types let a sender *)
(* put null in an optional field.                                           *)
SignAndEncode(sdk, e, alg, shape) ==
  /\ letter = {}
  /\ e.opt # "null"
  /\ Represents(sdk, e)
  /\ shape \in Shapes(sdk) /\ alg \in SdkAlgs(sdk)
  /\ letter' = {[env |-> e, alg |-> alg, by |-> sdk]}
  /\ envText' = {[shape |-> shape, env |-> Encoded(sdk, e), alg |-> alg,
                  sig |-> Sign(sdk, e, alg)]}
  /\ UNCHANGED <<sdkTime, altered, judged>>

(* One field of a text may be other than it was sent.                       *)
Alterations(text) ==
  {[text EXCEPT !.env.opt = v] : v \in OptValues}
  \cup {[text EXCEPT !.env.content = v] : v \in {"plain", "separator"}}
  \cup {[text EXCEPT !.env.nonce = v] : v \in {"text", "blank"}}
  \cup {[text EXCEPT !.env.ts = v] : v \in SdkTimes}
  \cup {[text EXCEPT !.env.ttl = v] : v \in SdkTtls}
  \cup {[text EXCEPT !.alg = v] : v \in Algs \cup {Omitted}}

AlterField ==
  /\ ~altered /\ judged = {}
  /\ \E text \in envText :
       \E other \in Alterations(text) \ {text} : envText' = {other}
  /\ altered' = TRUE
  /\ UNCHANGED <<sdkTime, letter, judged>>

(* One peer of each SDK decodes, validates and verifies the text, with the  *)
(* key of the algorithm the sender used.                                    *)
JudgeText ==
  /\ judged = {}
  /\ \E text \in envText, l \in letter :
       judged' = {[at |-> sdkTime,
                   by |-> {s \in Sdks : Accepts(s, text, l.alg, sdkTime)}]}
  /\ UNCHANGED <<sdkTime, letter, envText, altered>>

SdkLater ==
  /\ sdkTime < MaxSdkTime
  /\ judged = {}
  /\ sdkTime' = sdkTime + 1
  /\ UNCHANGED <<letter, envText, altered, judged>>

SdkNext ==
  \/ \E sdk \in Sdks, e \in SdkEnvelopes, alg \in Algs, shape \in {"full", "compact"} :
       SignAndEncode(sdk, e, alg, shape)
  \/ AlterField
  \/ JudgeText
  \/ SdkLater

SdkSpec == SdkInit /\ [][SdkNext]_sdkVars

(***************************************************************************)
(* Properties                                                              *)
(***************************************************************************)
SdkTypeOK ==
  /\ sdkTime \in 0 .. MaxSdkTime
  /\ \A l \in letter : l.env \in SdkEnvelopes /\ l.alg \in Algs /\ l.by \in Sdks
  /\ \A t \in envText :
       /\ t.env \in SdkEnvelopes
       /\ t.shape \in {"full", "compact"}
       /\ t.alg \in Algs \cup {Omitted}
  /\ altered \in BOOLEAN
  /\ \A j \in judged : j.at <= sdkTime /\ j.by \subseteq Sdks

(* The domain on which the SDKs are meant to agree: no empty or null        *)
(* optional field, no U+2028 or U+2029, numbers without a fraction. Outside *)
(* it GoCanonical and PyCanonical really differ from the reference.         *)
Common(e) == e.opt \in {"absent", "text"} /\ e.content = "plain" /\ Whole(e)

(* On the common domain two peers that read the same text at the same       *)
(* instant reach the same verdict, whichever SDKs they and the sender use,  *)
(* altered text included: a browser peer accepts exactly what the others    *)
(* accept under a key pair (sdk/browser/index.ts:294).                      *)
PeersAgree ==
  \A j \in judged, t \in envText, l \in letter :
    Common(t.env) /\ Common(l.env) =>
      \A s, r \in Sdks :
        t.shape \in Shapes(s) \cap Shapes(r) /\ l.alg \in SdkAlgs(s) \cap SdkAlgs(r)
          => (s \in j.by <=> r \in j.by)

SameText(e, f) ==
  /\ e.opt = f.opt \/ {e.opt, f.opt} \subseteq {"absent", "null", "empty"}
  /\ e.content = f.content
  /\ e.nonce = f.nonce
  /\ Truncated(e.ts) = Truncated(f.ts)
  /\ Truncated(e.ttl) = Truncated(f.ttl)

(* Whatever peer accepts a text, and whatever was changed in it, it reads   *)
(* the message that was signed: at most an optional field without a value   *)
(* is written otherwise, and a number differs by less than a millisecond    *)
(* (Python signs int(timestampMs)). Rewriting a message on the way stretches *)
(* its life by at most a millisecond.                                       *)
ReadAsSigned ==
  \A j \in judged, t \in envText, l \in letter :
    j.by # {} =>
      /\ SameText(t.env, l.env)
      /\ 2 * j.at <= l.env.ts + l.env.ttl + 2

(* sdk/python/protocol.py:454: a message crosses from any SDK to any other *)
(* through any encoding and is read as it was signed, or refused, and on   *)
(* the common domain by all alike.                                         *)
SdksAgree == ReadAsSigned /\ PeersAgree
=============================================================================
