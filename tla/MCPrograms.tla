---------------------------- MODULE MCPrograms -----------------------------
(***************************************************************************)
(* Programs that compute alone, each with what must hold of every result:  *)
(* the interpreter Ena, the firmwares of iot-paas2 and makestack, homu,    *)
(* and the string and printf libraries. They have nothing to do with each  *)
(* other and are checked in one run: `part` says which one runs.           *)
(***************************************************************************)
EXTENDS Integers, Sequences

CONSTANTS NULL

VARIABLE part   \* which of the programs runs

VARIABLES vm_value_pool, vm_num_free, vm_stack, vm_points, vm_current_scope,
          vm_current_class, vm_self, vm_frames, vm_unwinding, vm_evals, vm_nodes,
          vm_status
VARIABLES values_cstr2ident, values_ident2cstr, values_next_ident, values_objects,
          values_entries, values_stored, values_sets, values_stuck
VARIABLES lexer_script
VARIABLES parser_script
VARIABLES modem_pc, modem_connected, modem_log, modem_first_send, modem_report,
          modem_slot, modem_payload, modem_rx, modem_tx, modem_response, modem_handled,
          modem_reports, modem_disturbed, modem_torn, modem_coming, modem_faults
VARIABLES frame_fields, frame_closed
VARIABLES counts_inners, counts_vars_, counts_temps, counts_frames, counts_onready,
          counts_state
VARIABLES rules_apps, rules_userres, rules_process, rules_mode, rules_undefined,
          rules_running, rules_known
VARIABLES format_formatter, format_fmt, format_args, format_buf_size
VARIABLES text_which, text_obj, text_text, text_dict, text_ops

(* Ena: string literals, one with an escape and one with an unknown one;   *)
(* the characters of scripts ("n" is a newline, "q" a quotation mark, "b"  *)
(* a backslash); the tokens of scripts.                                    *)
EnaSources == {<<97>>, <<98>>, <<97, 98>>, <<98, 97>>, <<92, 110>>, <<92, 98>>, <<>>}
EnaChars == {"a", "0", "n", "q", "b", "=", "+", "/", "*", ";"}
EnaTokenSets ==
  {{"ID", "PLUS", "ASTERISK", "LT", "DOUBLE_EQ", "AND", "OR", "LPAREN", "RPAREN",
    "SEMICOLON"},
   {"ID", "PLUS", "EQ", "LPAREN", "RPAREN", "LBRACE", "RBRACE", "SEMICOLON",
    "IF", "FUNC"}}

ModemMessages == {<<"log", "stop">>, <<"update">>}

FrameLengths == {0, 1, 127, 128, 16383, 16384, 2097152, 268435455, 268435456}

(* The arguments of a call of printf, and the characters its formats are   *)
(* made of.                                                                *)
Argument(n, c, s) == [n |-> n, c |-> c, s |-> s, b |-> <<1, 10>>]
FormatArgs ==
  {<<Argument(-5, "k", <<"a", "a">>), Argument(0, "k", <<>>)>>,
   <<Argument(7, "k", <<"a">>), Argument(12, "m", <<"%", "d">>)>>,
   <<Argument(0, "m", <<>>)>>}
FormatAlphabet ==
  [printfmt |-> {"%", "d", "x", "X", "h", "l", "0", "#", "p", "P", "a"},
   strfmt |-> {"%", "d", "u", "x", "f", "c", "s", "0", "#", "p"},
   v8 |-> {"%", "d", "u", "x", "f"},
   vprintf |-> {"%", "d", "u", "x", "l", "h", "p", "v", "E", "s"},
   printk |-> {"%", "d", "x", "l", "p", "T", "S", "c", "s"},
   printk3 |-> {"%", "d", "u", "x", "l", "0", "#", "p", "c", "s"},
   vsprintf |-> {"%", "d", "x", "l", "#", "p", "c", "s", "a"},
   myos |-> {"%", "d", "x", "c", "s", "ESC", "[", "3", "a"}]

-----------------------------------------------------------------------------
Vm == INSTANCE EnaVm WITH
  ENA_MAX_NUM_VALUES <- 9, ENA_GC_THRESHOLD <- 4, DepthMax <- 3, EvalMax <- 2,
  NodeMax <- 5, HeldMax <- 2, value_pool <- vm_value_pool, num_free <- vm_num_free,
  stack <- vm_stack, points <- vm_points, current_scope <- vm_current_scope,
  current_class <- vm_current_class, self <- vm_self, frames <- vm_frames,
  unwinding <- vm_unwinding, evals <- vm_evals, nodes <- vm_nodes, status <- vm_status
vmVars == <<vm_value_pool, vm_num_free, vm_stack, vm_points, vm_current_scope,
  vm_current_class, vm_self, vm_frames, vm_unwinding, vm_evals, vm_nodes, vm_status>>
vmOff ==
  /\ vm_value_pool = 0 /\ vm_num_free = 0 /\ vm_stack = 0 /\ vm_points = 0
  /\ vm_current_scope = 0 /\ vm_current_class = 0 /\ vm_self = 0 /\ vm_frames = 0
  /\ vm_unwinding = 0 /\ vm_evals = 0 /\ vm_nodes = 0 /\ vm_status = 0

Values == INSTANCE EnaObjects WITH
  NumBuckets <- 2, Sources <- EnaSources, Ints <- {1, 2},
  CodePoints <- {65, 233, 12354, 128512}, ObjectMax <- 3, SetMax <- 2,
  cstr2ident <- values_cstr2ident, ident2cstr <- values_ident2cstr,
  next_ident <- values_next_ident, objects <- values_objects, entries <- values_entries,
  stored <- values_stored, sets <- values_sets, stuck <- values_stuck
valuesVars == <<values_cstr2ident, values_ident2cstr, values_next_ident, values_objects,
  values_entries, values_stored, values_sets, values_stuck>>
valuesOff ==
  /\ values_cstr2ident = 0 /\ values_ident2cstr = 0 /\ values_next_ident = 0
  /\ values_objects = 0 /\ values_entries = 0 /\ values_stored = 0
  /\ values_sets = 0 /\ values_stuck = 0

Lexer == INSTANCE EnaLexer WITH
  Chars <- EnaChars, LengthMax <- 4, script <- lexer_script
lexerVars == <<lexer_script>>
lexerOff ==
  /\ lexer_script = 0

Parser == INSTANCE EnaParser WITH
  TokenSets <- EnaTokenSets, LengthMax <- 6, script <- parser_script
parserVars == <<parser_script>>
parserOff ==
  /\ parser_script = 0

Modem == INSTANCE Telemata WITH
  CHANNELS_MAX <- 2, CHANNEL_COMMIT <- 3, LogSize <- 2, Messages <- ModemMessages,
  LogMax <- 2, RxMax <- 2, SendMax <- 1, FaultMax <- 1, pc <- modem_pc, connected <- modem_connected,
  log <- modem_log, first_send <- modem_first_send, report <- modem_report,
  slot <- modem_slot, payload <- modem_payload, rx <- modem_rx, tx <- modem_tx,
  response <- modem_response, handled <- modem_handled, reports <- modem_reports,
  disturbed <- modem_disturbed, torn <- modem_torn, coming <- modem_coming,
  faults <- modem_faults
modemVars == <<modem_pc, modem_connected, modem_log, modem_first_send, modem_report,
  modem_slot, modem_payload, modem_rx, modem_tx, modem_response, modem_handled,
  modem_reports, modem_disturbed, modem_torn, modem_coming, modem_faults>>
modemOff ==
  /\ modem_pc = 0 /\ modem_connected = 0 /\ modem_log = 0 /\ modem_first_send = 0
  /\ modem_report = 0 /\ modem_slot = 0 /\ modem_payload = 0 /\ modem_rx = 0
  /\ modem_tx = 0 /\ modem_response = 0 /\ modem_handled = 0 /\ modem_reports = 0
  /\ modem_disturbed = 0 /\ modem_torn = 0 /\ modem_coming = 0 /\ modem_faults = 0

Frame == INSTANCE MakestackFrame WITH
  Bytes <- {1, 10, 238, 224, 225}, BufLens <- {14, 18}, FieldMax <- 2, DataMax <- 4,
  Lengths <- FrameLengths, Noises <- {<<>>, <<1>>},
  Stales <- {<<1, 10, 1>>, <<1, 1, 10>>}, fields <- frame_fields, closed <- frame_closed
frameVars == <<frame_fields, frame_closed>>
frameOff ==
  /\ frame_fields = 0 /\ frame_closed = 0

Counts == INSTANCE MakestackVm WITH
  InnerNum <- 6, Ids <- {"device", "x"}, Props <- {"print", "delay"}, TempMax <- 6,
  CallMax <- 2, inners <- counts_inners, vars_ <- counts_vars_, temps <- counts_temps,
  frames <- counts_frames, onready <- counts_onready, state <- counts_state
countsVars == <<counts_inners, counts_vars_, counts_temps, counts_frames, counts_onready,
  counts_state>>
countsOff ==
  /\ counts_inners = 0 /\ counts_vars_ = 0 /\ counts_temps = 0 /\ counts_frames = 0
  /\ counts_onready = 0 /\ counts_state = 0

Rules == INSTANCE Homu WITH
  APP_MAX <- 3, PROS_MAX <- 3, USERRES_MAX <- 2, Paths <- {"zsh", "vim"},
  Files <- {"db"}, RuleSets <- {{3}, {3, 11}}, apps <- rules_apps,
  userres <- rules_userres, process <- rules_process, mode <- rules_mode,
  undefined <- rules_undefined, running <- rules_running, known <- rules_known
rulesVars == <<rules_apps, rules_userres, rules_process, rules_mode, rules_undefined,
  rules_running, rules_known>>
rulesOff ==
  /\ rules_apps = 0 /\ rules_userres = 0 /\ rules_process = 0 /\ rules_mode = 0
  /\ rules_undefined = 0 /\ rules_running = 0 /\ rules_known = 0

Format == INSTANCE Printf WITH
  IntBits <- 4, LongBits <- 8, Alphabet <- FormatAlphabet, ArgLists <- FormatArgs,
  LengthMax <- 3, BufSizes <- {4, 35}, formatter <- format_formatter, fmt <- format_fmt,
  args <- format_args, buf_size <- format_buf_size
formatVars == <<format_formatter, format_fmt, format_args, format_buf_size>>
formatOff ==
  /\ format_formatter = 0 /\ format_fmt = 0 /\ format_args = 0
  /\ format_buf_size = 0

Text == INSTANCE Strings WITH
  Chars <- {48, 50, 97}, PieceMax <- 2, TextMax <- 5, Slack <- 0, InitialCapacity <- 2,
  HashBins <- 2, RehashThreshold <- 2, Keys <- 0..4, OpMax <- 5, DepthMax <- 3, which <- text_which,
  obj <- text_obj, text <- text_text, dict <- text_dict, ops <- text_ops
textVars == <<text_which, text_obj, text_text, text_dict, text_ops>>
textOff ==
  /\ text_which = 0 /\ text_obj = 0 /\ text_text = 0 /\ text_dict = 0
  /\ text_ops = 0

vars == <<part, vmVars, valuesVars, lexerVars, parserVars, modemVars, frameVars,
          countsVars, rulesVars, formatVars, textVars>>

-----------------------------------------------------------------------------
(* The variables of the programs that do not run are 0. *)
Init ==
  \/ /\ part = "vm" /\ Vm!Init /\ valuesOff /\ lexerOff /\ parserOff /\ modemOff
     /\ frameOff /\ countsOff /\ rulesOff /\ formatOff /\ textOff
  \/ /\ part = "values" /\ Values!Init /\ vmOff /\ lexerOff /\ parserOff /\ modemOff
     /\ frameOff /\ countsOff /\ rulesOff /\ formatOff /\ textOff
  \/ /\ part = "lexer" /\ Lexer!Init /\ vmOff /\ valuesOff /\ parserOff /\ modemOff
     /\ frameOff /\ countsOff /\ rulesOff /\ formatOff /\ textOff
  \/ /\ part = "parser" /\ Parser!Init /\ vmOff /\ valuesOff /\ lexerOff /\ modemOff
     /\ frameOff /\ countsOff /\ rulesOff /\ formatOff /\ textOff
  \/ /\ part = "modem" /\ Modem!Init /\ vmOff /\ valuesOff /\ lexerOff /\ parserOff
     /\ frameOff /\ countsOff /\ rulesOff /\ formatOff /\ textOff
  \/ /\ part = "frame" /\ Frame!Init /\ vmOff /\ valuesOff /\ lexerOff /\ parserOff
     /\ modemOff /\ countsOff /\ rulesOff /\ formatOff /\ textOff
  \/ /\ part = "counts" /\ Counts!Init /\ vmOff /\ valuesOff /\ lexerOff /\ parserOff
     /\ modemOff /\ frameOff /\ rulesOff /\ formatOff /\ textOff
  \/ /\ part = "rules" /\ Rules!Init /\ vmOff /\ valuesOff /\ lexerOff /\ parserOff
     /\ modemOff /\ frameOff /\ countsOff /\ formatOff /\ textOff
  \/ /\ part = "format" /\ Format!Init /\ vmOff /\ valuesOff /\ lexerOff /\ parserOff
     /\ modemOff /\ frameOff /\ countsOff /\ rulesOff /\ textOff
  \/ /\ part = "text" /\ Text!Init /\ vmOff /\ valuesOff /\ lexerOff /\ parserOff
     /\ modemOff /\ frameOff /\ countsOff /\ rulesOff /\ formatOff

VmNext ==
  /\ part = "vm" /\ Vm!Next
  /\ UNCHANGED <<part, valuesVars, lexerVars, parserVars, modemVars, frameVars,
                countsVars, rulesVars, formatVars, textVars>>
ValuesNext ==
  /\ part = "values" /\ Values!Next
  /\ UNCHANGED <<part, vmVars, lexerVars, parserVars, modemVars, frameVars, countsVars,
                rulesVars, formatVars, textVars>>
LexerNext ==
  /\ part = "lexer" /\ Lexer!Next
  /\ UNCHANGED <<part, vmVars, valuesVars, parserVars, modemVars, frameVars, countsVars,
                rulesVars, formatVars, textVars>>
ParserNext ==
  /\ part = "parser" /\ Parser!Next
  /\ UNCHANGED <<part, vmVars, valuesVars, lexerVars, modemVars, frameVars, countsVars,
                rulesVars, formatVars, textVars>>
ModemNext ==
  /\ part = "modem" /\ Modem!Next
  /\ UNCHANGED <<part, vmVars, valuesVars, lexerVars, parserVars, frameVars, countsVars,
                rulesVars, formatVars, textVars>>
FrameNext ==
  /\ part = "frame" /\ Frame!Next
  /\ UNCHANGED <<part, vmVars, valuesVars, lexerVars, parserVars, modemVars, countsVars,
                rulesVars, formatVars, textVars>>
CountsNext ==
  /\ part = "counts" /\ Counts!Next
  /\ UNCHANGED <<part, vmVars, valuesVars, lexerVars, parserVars, modemVars, frameVars,
                rulesVars, formatVars, textVars>>
RulesNext ==
  /\ part = "rules" /\ Rules!Next
  /\ UNCHANGED <<part, vmVars, valuesVars, lexerVars, parserVars, modemVars, frameVars,
                countsVars, formatVars, textVars>>
FormatNext ==
  /\ part = "format" /\ Format!Next
  /\ UNCHANGED <<part, vmVars, valuesVars, lexerVars, parserVars, modemVars, frameVars,
                countsVars, rulesVars, textVars>>
TextNext ==
  /\ part = "text" /\ Text!Next
  /\ UNCHANGED <<part, vmVars, valuesVars, lexerVars, parserVars, modemVars, frameVars,
                countsVars, rulesVars, formatVars>>

Next == VmNext \/ ValuesNext \/ LexerNext \/ ParserNext \/ ModemNext \/ FrameNext \/
        CountsNext \/ RulesNext \/ FormatNext \/ TextNext

Spec == Init /\ [][Next]_vars

-----------------------------------------------------------------------------
(* Ena: no object a script can still come to is collected, the evaluator's *)
(* registers agree with the C stack however calls, loops and jumps nest,   *)
(* and maps, strings and identifiers hold what was put into them.          *)
EvaluatorRight ==
  /\ part = "vm" => Vm!LiveNotSwept /\ Vm!ContextExact
  /\ part = "values" => Values!ObjectsRight

(* Ena: a token that is looked at and pushed back comes again, and the     *)
(* tree of a script says what the script says, by operator precedence.     *)
ScriptsParsedRight ==
  /\ part = "lexer" => Lexer!FetchIsStable
  /\ part = "parser" => Parser!ParsedRight

(* What the firmwares send and receive comes out as it went in: payloads   *)
(* through the modem of iot-paas2, packets through the serial line of      *)
(* makestack, and makestack's values are freed when nothing has them.      *)
FirmwareRight ==
  /\ part = "modem" => Modem!PayloadsWhole
  /\ part = "frame" => Frame!RoundTrip
  /\ part = "counts" => Counts!CountsExact

(* homu: a process is judged by the rule of the application it runs. *)
JudgedByRule == part = "rules" => Rules!JudgedByRule

(* The printfs show the arguments of a plain format in order, and strings, *)
(* vectors and hash tables hold what was put into them.                    *)
LibrariesRight ==
  /\ part = "format" => Format!FormatsRight
  /\ part = "text" => Text!StringsRight
=============================================================================
