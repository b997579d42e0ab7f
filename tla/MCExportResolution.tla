-------------------------- MODULE MCExportResolution --------------------------
(* TLC instance of ExportResolution: every preset and every mode, but not  *)
(* every field of a config with every other.                               *)
EXTENDS ExportResolution

Spellings == {"new_relic", "new-relic", "grafana_tempo", "otlp_grpc", "otlp_http"}
Names     == Presets \cup Spellings \cup {"unset", "none", "typo"}
ModeNames == Modes \cup {"JSON-STDOUT", "none", "typo"}

SomeEnvInputs ==
  [preset : Presets \cup {"unset", "new_relic"}, export : {"unset"},
   sampling : {"unset", "bad"}, gzip : {FALSE}]
  \cup
  [preset : {"unset", "datadog"}, export : Modes \cup {"unset", "typo"},
   sampling : {"always_off"}, gzip : {TRUE}]

SomeProviderInputs ==
  [preset : Names, mode : {"json-stdout", "otlp-grpc"}, endpoint : {"unset"},
   headers : {NoHeaders, Header("auth", "config")},
   ratio : {"one"}, compression : {"unset"}, level : {FALSE}]
  \cup
  [preset : {"unset", "datadog", "typo"}, mode : ModeNames,
   endpoint : {"unset", "config"}, headers : {Header("custom", "config")},
   ratio : {"one"}, compression : {"unset"}, level : {FALSE}]
  \cup
  [preset : {"unset", "aws"}, mode : {"json-stdout", "aws-xray"},
   endpoint : {"unset", "config"}, headers : {NoHeaders, Header("_aws", "config")},
   ratio : {"one"}, compression : {"unset"}, level : {FALSE}]
  \cup
  [preset : {"unset", "datadog"}, mode : {"otlp-grpc"}, endpoint : {"config"},
   headers : {NoHeaders}, ratio : {"below", "zero", "half", "one", "above", "nan"},
   compression : {"gzip"}, level : {TRUE}]
  \cup
  [preset : {"unset", "datadog"}, mode : {"otlp-http"}, endpoint : {"unset"},
   headers : {NoHeaders}, ratio : {"one"}, compression : {"gzip", "other"},
   level : {FALSE}]
==============================================================================
