------------------------------- MODULE Entity -------------------------------
(***************************************************************************)
(* How the mappers under src/lib/Db write a row (Nextcloud's Entity and     *)
(* QBMapper).  A handler holds the row it loaded; a setter marks its field  *)
(* only when the value changes; update() writes the marked fields by id,    *)
(* whatever the row holds by then, and writes nothing when the row is gone. *)
(* A time or a fresh ciphertext never equals the loaded one: such a field is *)
(* always written.                                                          *)
(***************************************************************************)

\* What a column holds after update(), given what it holds now, what the
\* handler had loaded and what the handler assigned.
Put(stored, loaded, assigned) == IF assigned = loaded THEN stored ELSE assigned
=============================================================================
