--------------------------- MODULE MCModelDownload ---------------------------
(***************************************************************************)
(* download_models asks for everything, download_local_translation_model   *)
(* for the files of one model, two of which share a temporary path         *)
(* (tokenizer.json and tokenizer.model).                                   *)
(***************************************************************************)
EXTENDS ModelDownload, TLC

Kinds == "vad" :> "plain" @@ "head" :> "pinned" @@ "nemotron" :> "archive"
         @@ "json" :> "verified" @@ "tokens" :> "verified"
Order == "vad" :> 1 @@ "head" :> 2 @@ "nemotron" :> 3 @@ "json" :> 4 @@ "tokens" :> 5
Paths == "vad" :> "silero" @@ "head" :> "head" @@ "nemotron" :> "nemotron"
         @@ "json" :> "tokenizer" @@ "tokens" :> "tokenizer"
Asked == "models" :> DOMAIN Kinds @@ "translation" :> {"json", "tokens"}
=============================================================================
