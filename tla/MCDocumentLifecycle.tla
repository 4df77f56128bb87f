------------------------ MODULE MCDocumentLifecycle ------------------------
(* A PDF of two pages, recognised one by one. *)
EXTENDS DocumentLifecycle

MCFiles == {"not_pdf", "useless", "text", "scan"}
MCText == {"text"}

MCAttempts == [extract |-> 2, ocr |-> 1]
=============================================================================
