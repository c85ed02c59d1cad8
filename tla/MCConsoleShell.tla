--------------------------- MODULE MCConsoleShell ---------------------------
(* Instances of ConsoleShell for TLC. *)
EXTENDS ConsoleShell, TLC

\* The about page is not in the sidebar.
ThreeItems == <<"tasks", "tools", "about">>

\* One word that only Hindi labels contain, one of both languages, one of none.
SmallEnglish == "to" :> {"tools"} @@ "hi-word" :> {} @@ "zz" :> {}
SmallLocalised ==
  "en" :> SmallEnglish @@
  "hi" :> ("to" :> {} @@ "hi-word" :> {"tools", "about"} @@ "zz" :> {})

SmallBases == "hi-IN" :> "hi" @@ "en-GB" :> "en" @@ "fr-FR" :> "fr"
TwoBrowsers == {<<"fr-FR", "en-GB">>, <<"en-GB", "hi-IN">>}
=============================================================================
