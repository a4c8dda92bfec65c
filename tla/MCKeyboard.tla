----------------------------- MODULE MCKeyboard -----------------------------
(* A word list of three letters with the shapes of the BIP-39 list: one word alone under its   *)
(* first letter, a group of three of different lengths, and <<1, 2>>, which four words start   *)
(* with, itself included, as "art", "artefact", "artist" and "artwork" do.                      *)
EXTENDS Keyboard

MCWords == << <<1, 1, 3>>, <<1, 2>>, <<1, 2, 1>>, <<1, 2, 2, 3>>, <<1, 2, 3>>,
              <<2, 1, 3, 1>>, <<2, 2>>, <<2, 2, 2>>, <<3, 1>> >>
=============================================================================
