--------------------------- MODULE AgentPipeline ---------------------------
(* The five agents that preprocess one chapter before synthesis and the bridge *)
(* that runs them (pipeline/integration.py, pipeline/agents/).  A chapter is a *)
(* sequence of lines, a paragraph is the set of the lines it was made of.      *)
EXTENDS Naturals, Sequences, FiniteSets, SequencesExt

CONSTANTS RawChapters,  \* chapter texts: sequences of LineKinds
          Batch      \* paragraphs in one prompt of the prosody planner

LineKinds == {"heading", "break", "blank", "tell", "say", "long"}
ASSUME AgentAssumption == RawChapters \subseteq Seq(LineKinds) /\ Batch \in Nat \ {0}

VARIABLES lines,     \* the chapter text
          agent,     \* the stage about to run, "done" at the end
          parsed,    \* Agent 1's scenes: sequences of paragraphs
          scenes,    \* the scenes as the last stage left them
          failed,    \* stages whose run failed
          degraded,  \* degraded_stages
          trace,     \* the pipeline_traces row: [status, qa]
          checked,   \* the validator ran and counted no error
          answer     \* what the worker gets: [from, text]

agentVars == <<lines, agent, parsed, scenes, failed, degraded, trace, checked, answer>>

Stages == <<"structure_parser", "character_attribution", "text_normalizer",
            "prosody_planner", "qa_validator">>
StageNo(stage) == CHOOSE i \in 1..5 : Stages[i] = stage
Later(stage) == IF stage = Stages[5] THEN "done" ELSE Stages[StageNo(stage) + 1]

NoAnswer == [from |-> "none", text |-> <<>>]
AgentInit == /\ lines \in RawChapters /\ agent = Stages[1]
             /\ parsed = <<>> /\ scenes = <<>> /\ failed = {} /\ degraded = <<>>
             /\ trace = [status |-> "running", qa |-> FALSE]
             /\ checked = FALSE /\ answer = NoAnswer
----------------------------------------------------------------------------
\* Agent 1.  The loop keeps the finished scenes of all chapters, the open
\* scene, the lines of the open paragraph and whether a heading was seen.
Words == {"tell", "say", "long"}
Para(ls, index) == [of |-> ls, index |-> index, speaker |-> "unset", cut |-> FALSE, tags |-> "none"]
ParseStart(front) == [done |-> <<>>, scene |-> <<>>, para |-> <<>>, front |-> front]
FlushParagraph(st) == IF st.para = <<>> THEN st
                      ELSE [st EXCEPT !.scene = Append(@, Para(st.para, Len(@))), !.para = <<>>]
CloseScene(st) == [st EXCEPT !.done = Append(@, st.scene), !.scene = <<>>]
\* Slip: a scene break does not end the paragraph before it.
CloseSceneOnly(st) == CloseScene([st EXCEPT !.para = <<>>])
StartNewScene(st) == CloseScene(FlushParagraph(st))
ParseLine(st, i) ==
    IF lines[i] = "heading" THEN IF st.front THEN ParseStart(FALSE) ELSE StartNewScene(st)
    ELSE IF st.front THEN st
    ELSE CASE lines[i] = "break" -> StartNewScene(st)
           [] lines[i] = "blank" -> FlushParagraph(st)
           [] OTHER -> [st EXCEPT !.para = Append(@, i)]
WholeText == LET after[n \in 0..Len(lines)] ==
                   IF n = 0 THEN <<>>
                   ELSE IF lines[n] = "blank" THEN after[n - 1]
                   ELSE Append(after[n - 1], Para(<<n>>, n - 1))
             IN  after[Len(lines)]
Parsed == LET after[n \in 0..Len(lines)] ==
                IF n = 0 THEN ParseStart(TRUE) ELSE ParseLine(after[n - 1], n)
          IN  after[Len(lines)]
StructureOf == IF Parsed.front THEN <<WholeText>> ELSE StartNewScene(Parsed).done

\* A required stage failed: the basic preprocessing of the whole text.
BasicFallback(stage) ==
    /\ failed' = failed \cup {stage} /\ degraded' = Append(degraded, stage)
    /\ trace' = [trace EXCEPT !.status = "failed"]
    /\ answer' = [from |-> "basic", text |-> [i \in 1..Len(lines) |-> {i}]]
    /\ agent' = "done"
    /\ UNCHANGED <<lines, parsed, scenes, checked>>

\* The text has no word, or the stage raises.
ParserFails == /\ agent = "structure_parser" /\ BasicFallback(agent)
ParserRuns == /\ agent = "structure_parser" /\ \E i \in DOMAIN lines : lines[i] # "blank"
              /\ parsed' = StructureOf /\ scenes' = StructureOf /\ agent' = Later(agent)
              /\ UNCHANGED <<lines, failed, degraded, trace, checked, answer>>

\* An optional stage failed: its input goes on, and the stage is listed.
\* Slip: the stage is not listed.
Unlisted(stage) == /\ failed' = failed \cup {stage} /\ UNCHANGED degraded
Degrade(stage) == /\ failed' = failed \cup {stage} /\ degraded' = Append(degraded, stage)
Keep == UNCHANGED <<lines, parsed, trace, checked, answer>>
OnParas(F(_)) == [s \in DOMAIN scenes |-> [p \in DOMAIN scenes[s] |-> F(scenes[s][p])]]

\* Agent 2: the model's answer names a speaker for an index, or the hint of
\* Agent 1 and the kind of paragraph decide.
Hint(p) == IF \E i \in Range(p.of) : lines[i] = "say" THEN "Unknown" ELSE "Narrator"
Attribution == /\ agent = "character_attribution" /\ agent' = Later(agent)
               /\ \E named \in SUBSET (0..Len(lines)) :
                     scenes' = OnParas(LAMBDA p : [p EXCEPT !.speaker =
                                  IF p.index \in named THEN "Name" ELSE Hint(p)])
               /\ UNCHANGED <<failed, degraded>> /\ Keep
AttributionFails == /\ agent = "character_attribution" /\ agent' = Later(agent)
                    /\ scenes' = parsed /\ Degrade(agent) /\ Keep

\* Agent 3 rewrites words inside each paragraph (a bad lexicon entry raises).
NormalizeText == /\ agent = "text_normalizer" /\ scenes # <<>> /\ agent' = Later(agent)
             /\ UNCHANGED <<scenes, failed, degraded>> /\ Keep
NormalizerFails == /\ agent = "text_normalizer" /\ BasicFallback(agent)

\* Agent 4: each batch of a scene is one prompt that holds the first 300
\* characters of every paragraph.  An answered index takes the answer's text;
\* an index missing in the answer, or no answer at all, takes the rules' tags.
Batches(s) == {(p - 1) \div Batch : p \in DOMAIN scenes[s]}
Long(p) == Len(p.of) > 1 \/ \E i \in Range(p.of) : lines[i] = "long"
PlanProsody ==
    /\ agent = "prosody_planner" /\ agent' = Later(agent)
    /\ \E silent \in SUBSET UNION {{<<s, b>> : b \in Batches(s)} : s \in DOMAIN scenes},
          skipped \in SUBSET {p.index : p \in UNION {Range(scenes[s]) : s \in DOMAIN scenes}} :
          scenes' = [s \in DOMAIN scenes |-> [p \in DOMAIN scenes[s] |->
              LET para == scenes[s][p] IN
              IF <<s, (p - 1) \div Batch>> \in silent \/ para.index \in skipped
              THEN [para EXCEPT !.tags = "rules"]
              ELSE [para EXCEPT !.tags = "model", !.cut = Long(para)]]]
    /\ UNCHANGED <<failed, degraded>> /\ Keep
ProsodyFails == /\ agent = "prosody_planner" /\ agent' = Later(agent)
                /\ UNCHANGED scenes /\ Degrade(agent) /\ Keep

\* Agent 5 counts paragraphs against Agent 1's and checks the tags a model
\* wrote; then the bridge joins the paragraphs and closes the trace.
Count(ss) == FoldLeft(LAMBDA n, s : n + Len(s), 0, ss)
Joined == [p \in DOMAIN FlattenSeq(scenes) |-> Range(FlattenSeq(scenes)[p].of)]
Finish(qa, degradedNow) ==
    /\ trace' = [status |-> IF degradedNow = <<>> THEN "completed" ELSE "completed_degraded", qa |-> qa]
    /\ answer' = [from |-> "agents", text |-> Joined]
    /\ agent' = "done" /\ UNCHANGED <<lines, parsed, scenes>>
Validate == /\ agent = "qa_validator"
            /\ \E tagError \in BOOLEAN :
                 LET ok == ~tagError /\ Count(scenes) >= Count(parsed) IN
                 /\ tagError => \E s \in DOMAIN scenes : \E p \in Range(scenes[s]) : p.tags = "model"
                 /\ checked' = ok /\ Finish(ok, degraded)
            /\ UNCHANGED <<failed, degraded>>
ValidatorFails == /\ agent = "qa_validator" /\ Degrade(agent)
                  /\ Finish(FALSE, Append(degraded, agent)) /\ UNCHANGED checked

\* Last resort: a flush or commit raised between two stages.
Unexpected == /\ agent # "done"
              /\ trace' = [trace EXCEPT !.status = "failed"]
              /\ answer' = [from |-> "basic", text |-> [i \in 1..Len(lines) |-> {i}]]
              /\ agent' = "done"
              /\ UNCHANGED <<lines, parsed, scenes, failed, degraded, checked>>

AgentNext == \/ ParserRuns \/ ParserFails \/ Attribution \/ AttributionFails
             \/ NormalizeText \/ NormalizerFails \/ PlanProsody \/ ProsodyFails
             \/ Validate \/ ValidatorFails \/ Unexpected
----------------------------------------------------------------------------
AgentTypeOK == /\ agent \in Range(Stages) \cup {"done"} /\ failed \subseteq Range(Stages)
               /\ trace \in [status : {"running", "failed", "completed", "completed_degraded"}, qa : BOOLEAN]
               /\ answer.from \in {"none", "basic", "agents"}

\* "the degradation is still surfaced" and qa_passed is "never silently True"
\* (integration.py): however stages fail together, the failed stages are listed,
\* each once and in order, a completed trace had none, and a passed quality check means
\* the validator ran on the delivered text and counted no error.
DegradationSurfaced ==
    agent = "done" =>
        /\ Range(degraded) = failed
        /\ \A i, k \in DOMAIN degraded : i < k => StageNo(degraded[i]) < StageNo(degraded[k])
        /\ trace.status = "completed" => failed = {}
        /\ trace.qa => checked /\ answer.from = "agents"
        /\ answer.from = "agents" => trace.status \in {"completed", "completed_degraded"}

\* The body of a chapter: its lines of words after the first heading, or every
\* line that is not blank when it has none.
FirstHeading == CHOOSE i \in DOMAIN lines :
                   lines[i] = "heading" /\ \A k \in 1..(i - 1) : lines[k] # "heading"
Body == IF \E i \in DOMAIN lines : lines[i] = "heading"
        THEN {i \in DOMAIN lines : i > FirstHeading /\ lines[i] \in Words}
        ELSE {i \in DOMAIN lines : lines[i] # "blank"}

\* "its failure must not lose the normalized text": whatever stages fell back
\* and whatever the models answered, the text handed to synthesis has every
\* body line in exactly one paragraph, and paragraphs in the order of the book.
BodyKept ==
    answer.from = "agents" =>
        /\ UNION Range(answer.text) = Body
        /\ \A p, q \in DOMAIN answer.text : p < q =>
              \A i \in answer.text[p], k \in answer.text[q] : i < k

\* Both: what a chapter is read from is its own text, and its trace says how
\* it was made.
ReadingHonest == BodyKept /\ DegradationSurfaced

\* "Verify all paragraphs from input exist in output" (qa_validator.py): when
\* the quality check passed, every line of words of the input is in the text,
\* and no paragraph was cut.
QaMeansWhole ==
    trace.qa => /\ \A i \in DOMAIN lines : lines[i] \in Words => i \in UNION Range(answer.text)
                /\ \A s \in DOMAIN scenes : \A p \in Range(scenes[s]) : ~p.cut

AgentSpec == AgentInit /\ [][AgentNext]_agentVars
=============================================================================
