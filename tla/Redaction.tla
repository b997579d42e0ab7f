------------------------------ MODULE Redaction ------------------------------
(***************************************************************************)
(* redaction.rs: what becomes of a field or attribute on its way out.      *)
(*                                                                         *)
(* A text is abstracted to the heuristics it triggers: "bearer" (it starts *)
(* with "Bearer "), "pii" (looks_like_email, _token, _phone or _secret)    *)
(* and "custom" (it contains one of the custom patterns).  A key is only   *)
(* known to be sensitive or not.                                           *)
(***************************************************************************)

RedactionModes == {"off", "strict", "allowlist"}

PiiModeVars == {"unset", "off", "none", "strict", "allowlist", "typo"}

(* PII_REDACTION_MODE: off, none, a typo and no value at all turn it off.  *)
ModeFromEnv(pii) == IF pii \in {"strict", "allowlist"} THEN pii ELSE "off"

Values == [shapes : SUBSET {"bearer", "pii", "custom"}, string : BOOLEAN]

Redactors == [mode : RedactionModes, patterns : BOOLEAN]

(* REDACTOR.get().cloned().unwrap_or_default()                             *)
DefaultRedactor == [mode |-> "off", patterns |-> FALSE]

Outputs == {"raw", "[REDACTED]", "Bearer [REDACTED]"}

(* The heuristics and the custom patterns only run in a mode that is on.   *)
MaskValue(value, redactor) ==
  IF /\ redactor.mode # "off"
     /\ \/ value.shapes \cap {"bearer", "pii"} # {}
        \/ redactor.patterns /\ "custom" \in value.shapes
  THEN "[REDACTED]" ELSE "raw"

(* A sensitive key masks whatever the mode.                                *)
RedactForKey(sensitive, value, redactor) ==
  IF ~sensitive THEN MaskValue(value, redactor)
  ELSE IF "bearer" \in value.shapes THEN "Bearer [REDACTED]" ELSE "[REDACTED]"

(* Bug: values that are not strings pass.                                  *)
BugStringsOnly(sensitive, value, redactor) ==
  IF value.string THEN RedactForKey(sensitive, value, redactor) ELSE "raw"

(* redact_attributes, of the spans and span events in a batch: numbers are *)
(* masked for their key only.                                              *)
RedactAttribute(sensitive, value, redactor) ==
  IF value.string THEN RedactForKey(sensitive, value, redactor)
  ELSE IF sensitive THEN "[REDACTED]" ELSE "raw"

(* RedactingVisitor, of the fmt layer of prod-json: every value is         *)
(* formatted first, so a number can look like a phone.  The dev layers go  *)
(* on to .pretty() and .json(), whose formatters redact nothing.           *)
FmtField(sensitive, value, redactor) == RedactForKey(sensitive, value, redactor)
-----------------------------------------------------------------------------
(* The redactors that mask every sensitive attribute and, in a mode that   *)
(* is on, every string the heuristics catch; and what they mask in an      *)
(* attribute they mask in the redacting fmt layer too.                     *)
Masking ==
  {r \in Redactors : \A value \in Values :
     /\ RedactAttribute(TRUE, value, r) # "raw"
     /\ r.mode # "off" /\ value.string /\ value.shapes \cap {"bearer", "pii"} # {}
        => RedactAttribute(FALSE, value, r) # "raw"
     /\ \A sensitive \in BOOLEAN :
          RedactAttribute(sensitive, value, r) # "raw"
          => FmtField(sensitive, value, r) # "raw"}
=============================================================================
