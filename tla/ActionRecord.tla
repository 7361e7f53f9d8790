---------------------------- MODULE ActionRecord ----------------------------
(***************************************************************************)
(* The success record of one build action (pkg/build/signature.go): what a *)
(* compile or a link saves next to its outputs, and the test that decides  *)
(* whether the outputs found on disk may be kept.                          *)
(*                                                                         *)
(* A file's content is a version; a hash of a file is that version, so two *)
(* fingerprints are equal exactly when the contents are.                   *)
(***************************************************************************)

CONSTANTS
  Gone,       \* the "version" of a file that does not exist
  NoFile,     \* an output that does not exist
  Torn,       \* an output half written by an action that did not finish
  NoRecord    \* no record file, or one that cannot be read

(* fingerprintFiles: the state of every listed file, by its name *)
Fingerprint(files, content) == [f \in files |-> content[f]]

(* fingerprintFiles returns an error for a file it cannot stat *)
Readable(fingerprint) == \A f \in DOMAIN fingerprint : fingerprint[f] # Gone

(* Mutant: the inputs are not compared. *)
UpToDateIgnoringInputs(record, signature, inputs, output) ==
  /\ record # NoRecord
  /\ record.signature = signature
  /\ output # NoFile
  /\ record.output = output

(* checkAction: a record that exists, of the same command, of the same     *)
(* readable inputs and of the same existing output.                        *)
UpToDate(record, signature, inputs, output) ==
  /\ record # NoRecord
  /\ record.signature = signature
  /\ Readable(inputs.files)
  /\ record.inputs = inputs
  /\ output # NoFile
  /\ record.output = output

(* saveActionRecord: what the record of a finished action says *)
SuccessRecord(signature, inputs, output) ==
  [signature |-> signature, inputs |-> inputs, output |-> output]

=============================================================================
