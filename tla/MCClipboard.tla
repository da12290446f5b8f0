----------------------------- MODULE MCClipboard -----------------------------
(* Two nodes: the backend of n1 holds everything, that of n2 turns html into *)
(* the text y, as the Windows backend does with ClipboardContent::Html.     *)
EXTENDS Clipboard, TLC

CONSTANTS n1, n2, x, y, html, big

MCReadBack == (n1 :> [c \in Contents |-> c])
                 @@ (n2 :> [c \in Contents |-> IF c = html THEN y ELSE c])
=============================================================================
