------------------------------- MODULE ToolIds -------------------------------
(***************************************************************************)
(* The ids of tool calls on their way between the provider and Claude      *)
(* Code: encodeToolId and decodeToolId (proxy/bin/cc-openai-proxy.js), and *)
(* encode_legacy_id (ccpatch/transcripts.py), which rewrites stored ids.   *)
(*                                                                         *)
(* A nonempty string is <<b, n>>: the string b inside n envelopes, where   *)
(* an envelope is the reserved prefix followed by the canonical base64url  *)
(* of what it holds, and b is not an envelope itself.  This is a normal    *)
(* form: base64url without padding is one-to-one on canonical payloads.    *)
(* EncodeUnescaped is a faulty variant, used by no specification: the      *)
(* properties notice it.                                                   *)
(***************************************************************************)
EXTENDS Integers

CONSTANTS
  Plain,      \* letters, digits, _ and - only, without the reserved prefix
  Composite,  \* call_id|item_id, as pi-ai makes them
  Odd,        \* other characters
  Marked      \* the prefix with anything but a canonical payload after it

ASSUME BasesDisjoint ==
  /\ Plain \cap (Composite \cup Odd \cup Marked) = {}
  /\ Composite \cap (Odd \cup Marked) = {}
  /\ Odd \cap Marked = {}

Ids == (Plain \cup Composite \cup Odd \cup Marked) \X Nat

Enclose(id) == <<id[1], id[2] + 1>>

EncodeUnescaped(id) == IF id[2] > 0 \/ id[1] \in Plain \cup Marked THEN id ELSE Enclose(id)

\* Unsafe characters and the reserved prefix are escaped alike.
EncodeToolId(id) == IF id[2] = 0 /\ id[1] \in Plain THEN id ELSE Enclose(id)

\* Opens one envelope, if encodeToolId would have closed it.
DecodeToolId(id) ==
  IF id[2] > 0 /\ EncodeToolId(<<id[1], id[2] - 1>>) = id
  THEN <<id[1], id[2] - 1>>
  ELSE id

EncodeLegacyId(id) == IF id[2] = 0 /\ id[1] \in Composite THEN Enclose(id) ELSE id

(***************************************************************************)
(* What a transcript may hold for a call the provider knows as x: the id   *)
(* this proxy sends, or the bare id an earlier proxy sent, migrated or     *)
(* not.  The README excepts bare ids that look like an envelope of this    *)
(* proxy; a plain id in an envelope does not.                              *)
(***************************************************************************)
Bare(x) == x[2] = 0 \/ (x[2] = 1 /\ x[1] \in Plain)
Stored(x) ==
  {EncodeToolId(x)} \cup {y \in {x, EncodeLegacyId(x)} : Bare(x)}
=============================================================================
