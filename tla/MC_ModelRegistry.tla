-------------------------- MODULE MC_ModelRegistry --------------------------
(* Model directories for TLC.  Sizes and names follow the spec's          *)
(* scenarios: Falcon3 7B (2500 MB) and 10B (3500 MB) ternary instruct     *)
(* models, a 1B-class file, and a copy of the 7B file in a subdirectory  *)
(* that ties with it on score.                                            *)
EXTENDS ModelRegistry

F(n, k, t, h, g, sz, tg) ==
    [name |-> n, kind |-> k, link |-> FALSE, target |-> t, hidden |-> h,
     gguf |-> g, size |-> sz, tags |-> tg]

Falcon7 == F("falcon3-7b-instruct-1.58bit-i2_s.gguf", "file", "f7", FALSE, TRUE,
             2500, {"ternary", "instruct"})
Falcon10 == F("falcon3-10b-instruct-1.58bit-i2_s.gguf", "file", "f10", FALSE, TRUE,
              3500, {"ternary", "instruct"})
Small == F("tiny-chat.gguf", "file", "s1", FALSE, TRUE, 400, {"instruct"})
Copy7 == F("falcon3-7b-instruct-1.58bit-i2_s.gguf", "file", "c7", FALSE, TRUE,
           2500, {"ternary", "instruct"})
(* A smaller quantisation in the same parameter tier as Falcon7.         *)
Falcon7s == F("falcon3-7b-instruct-1.58bit-i2_s-small.gguf", "file", "f7s", FALSE, TRUE,
              2000, {"ternary", "instruct"})
Notes == F("README.txt", "file", "n", FALSE, FALSE, 0, {})
Hidden == F(".partial.gguf", "file", "h", TRUE, TRUE, 900, {})
Broken == F("old.gguf", "dangling", "x", FALSE, TRUE, 0, {})
SubDir == F("mirror", "dir", "mirror", FALSE, FALSE, 0, {})
(* A symbolic link in the subdirectory back to the models directory.     *)
UpLink == [F("all-models", "dir", "models", FALSE, FALSE, 0, {}) EXCEPT !.link = TRUE]

MCFS == [d \in {"models", "mirror"} |->
           IF d = "models" THEN {Falcon7, Falcon10, Notes, Hidden, SubDir}
           ELSE {Copy7, Falcon7s, Small, Broken}]
MCLinkFS == [MCFS EXCEPT !["mirror"] = @ \cup {UpLink}]
=============================================================================
