------------------------------- MODULE MCGpuDriven -------------------------------
EXTENDS GpuDriven
===============================================================================
