----------------------------- MODULE MCTrigger -----------------------------
EXTENDS Trigger

Plus == <<"+", "+", "+">>
Setting(size, time, delimiter, appendix, mixed, command) ==
  [packing_size |-> size, packing_time |-> time, packing_delimiter |-> delimiter,
   packing_data_appendix |-> appendix, mixed |-> mixed, serial_command |-> command]
MCConfigs ==
  {Setting(0, 0, <<>>, 0, FALSE, TRUE), Setting(2, 0, <<>>, 0, FALSE, FALSE),
   Setting(0, 2, <<>>, 0, FALSE, FALSE), Setting(0, 0, <<"x">>, 1, TRUE, TRUE),
   Setting(3, 1, <<"x">>, 0, TRUE, FALSE)}
=============================================================================
